---- MODULE Spec2Model ----
(***************************************************************************)
(* A model of gogstools' gs package: the struct-tag descriptor grammar     *)
(* (parser.go), the registry built from a configuration struct             *)
(* (reflectFields, NewCommand) and the clause-based argument parser        *)
(* (GSCommand.Parse, parseFlagWithNegation).                               *)
(*                                                                         *)
(* Go strings are TLA+ strings, handled with Len, SubSeq and \o.  A Go     *)
(* interface{} value is a record [t |-> <dynamic type>, v |-> <value>].    *)
(* A Go error is a sequence: <<>> is nil, <<msg>> is an error with text    *)
(* msg.                                                                    *)
(***************************************************************************)
EXTENDS Integers, Sequences, FiniteSets, TLC

VARIABLES
    cfg,      \* name of the configuration struct type the command was built from
    args,     \* Parse: the argument vector
    i,        \* Parse: the scan index (0-based, as in the code)
    clauses,  \* Parse: the clauses closed so far, then the returned list
    current,  \* Parse: the clause being scanned
    global,   \* Parse: the accumulator of command-wide values
    config,   \* the configuration struct's fields (cmd.config)
    pc,       \* Parse: "scan", "done" (returned clauses) or "failed" (returned error)
    err,      \* Parse: the returned error
    roles,    \* Parse: what each consumed token was consumed as
    struct,   \* NewCommand: the gs tags of the struct's fields, in order
    fidx,     \* reflectFields: the loop index over the struct's fields
    fields,   \* reflectFields: the descriptors collected so far
    tpc,      \* NewCommand: "reflect", "built" or "failed"
    cmd,      \* NewCommand: the returned pointer, "nil" or "GSCommand" (its fields: fields)
    terr,     \* NewCommand: the returned error
    compArgs,     \* complete: args
    pos,          \* complete: pos
    cpc,          \* complete: "idle", "called", "returned" or "panicked"
    context,      \* complete: the CompletionContext of the call
    completions,  \* complete: the returned candidates
    cerr,         \* complete: the returned error
    opened,       \* the files os.Open was called on during the call
    fieldCache,   \* cmd.fieldCache
    contentCache, \* cmd.contentCache
    calls,        \* the number of calls of complete so far
    lookups,      \* the calls of getFields and getFieldValues so far, with results
    matchName,    \* matchesSuffixPattern: filename
    matchPattern, \* matchesSuffixPattern: pattern
    matched,      \* matchesSuffixPattern: the returned bool
    mpc,          \* matchesSuffixPattern: "idle", "called" or "returned"
    xpc,          \* Execute: "idle", "called", "parsing", "parsed", "validated", "returned", "panicked"
    xerr,         \* Execute: the returned error
    xcalls,       \* Execute: the calls made so far, "Parse", "Validate", "Execute"
    xcollab,      \* Execute: the error the Commander produced, if any
    xout,         \* Execute: the lines printed on standard output
    xlog          \* Execute: the number of progress messages the Commander logged

parseVars == <<cfg, args, i, clauses, current, global, config, pc, err, roles>>
tagVars == <<struct, fidx, fields, tpc, cmd, terr>>
compVars == <<compArgs, pos, cpc, context, completions, cerr, opened, fieldCache,
              contentCache, calls, lookups>>
matchVars == <<matchName, matchPattern, matched, mpc>>
execVars == <<xpc, xerr, xcalls, xcollab, xout, xlog>>
vars == <<cfg, args, i, clauses, current, global, config, pc, err, roles,
          struct, fidx, fields, tpc, cmd, terr,
          compArgs, pos, cpc, context, completions, cerr, opened, fieldCache, contentCache,
          calls, lookups, matchName, matchPattern, matched, mpc,
          xpc, xerr, xcalls, xcollab, xout, xlog>>

-----------------------------------------------------------------------------
(* Go values and errors                                                    *)

Str(s) == [t |-> "string", v |-> s]
Num(n) == [t |-> "float64", v |-> n]
Bool(b) == [t |-> "bool", v |-> b]
StrSlice(s) == [t |-> "[]string", v |-> s]
List(s) == [t |-> "[]interface{}", v |-> s]
Map(m) == [t |-> "map[string]interface{}", v |-> m]
Nil == [t |-> "nil", v |-> "nil"]

NoErr == <<>>
Errorf(msg) == <<msg>>
ErrText(e) == e[1]

NoFields == [k \in {} |-> Nil]
Put(m, k, val) == [x \in DOMAIN m \cup {k} |-> IF x = k THEN val ELSE m[x]]

-----------------------------------------------------------------------------
(* package strings / strconv                                               *)

Char(s, n) == SubSeq(s, n, n)

HasPrefix(s, p) == Len(s) >= Len(p) /\ SubSeq(s, 1, Len(p)) = p

HasSuffix(s, p) == Len(s) >= Len(p) /\ SubSeq(s, Len(s) - Len(p) + 1, Len(s)) = p

\* strings.Index(s, sub) + 1, or 0 when sub does not occur in s
IndexOf(s, sub) ==
    LET at == {n \in 1..(Len(s) - Len(sub) + 1) : SubSeq(s, n, n + Len(sub) - 1) = sub}
    IN IF at = {} THEN 0 ELSE CHOOSE n \in at : \A m \in at : n <= m

Contains(s, sub) == IndexOf(s, sub) # 0

Upper == <<"A","B","C","D","E","F","G","H","I","J","K","L","M",
           "N","O","P","Q","R","S","T","U","V","W","X","Y","Z">>
Lower == <<"a","b","c","d","e","f","g","h","i","j","k","l","m",
           "n","o","p","q","r","s","t","u","v","w","x","y","z">>

IsUpper(c) == \E n \in DOMAIN Upper : Upper[n] = c

LowerChar(c) == IF IsUpper(c) THEN Lower[CHOOSE n \in DOMAIN Upper : Upper[n] = c] ELSE c

RECURSIVE ToLower(_)
ToLower(s) == IF Len(s) = 0 THEN "" ELSE LowerChar(Char(s, 1)) \o ToLower(SubSeq(s, 2, Len(s)))

\* The white space of the model's texts.
Space == {" ", "\t"}

RECURSIVE TrimLeft(_)
TrimLeft(s) == IF Len(s) > 0 /\ Char(s, 1) \in Space THEN TrimLeft(SubSeq(s, 2, Len(s))) ELSE s

RECURSIVE TrimRight(_)
TrimRight(s) ==
    IF Len(s) > 0 /\ Char(s, Len(s)) \in Space
    THEN TrimRight(SubSeq(s, 1, Len(s) - 1)) ELSE s

TrimSpace(s) == TrimRight(TrimLeft(s))

\* strings.Split(s, sep) for a one-character separator
RECURSIVE Split(_, _)
Split(s, sep) ==
    LET n == IndexOf(s, sep)
    IN IF n = 0 THEN <<s>>
       ELSE <<SubSeq(s, 1, n - 1)>> \o Split(SubSeq(s, n + 1, Len(s)), sep)

\* strings.SplitN(s, sep, 2)
SplitN2(s, sep) ==
    LET n == IndexOf(s, sep)
    IN IF n = 0 THEN <<s>> ELSE <<SubSeq(s, 1, n - 1), SubSeq(s, n + 1, Len(s))>>

RECURSIVE Join(_, _)
Join(ss, sep) ==
    IF Len(ss) = 0 THEN ""
    ELSE IF Len(ss) = 1 THEN ss[1]
    ELSE ss[1] \o sep \o Join(Tail(ss), sep)

Digits == <<"0","1","2","3","4","5","6","7","8","9">>
IsDigit(c) == \E n \in DOMAIN Digits : Digits[n] = c
DigitVal(c) == (CHOOSE n \in DOMAIN Digits : Digits[n] = c) - 1

RECURSIVE DecimalVal(_, _)
DecimalVal(s, acc) ==
    IF Len(s) = 0 THEN acc
    ELSE DecimalVal(SubSeq(s, 2, Len(s)), acc * 10 + DigitVal(Char(s, 1)))

AllDigits(s) == Len(s) > 0 /\ \A n \in 1..Len(s) : IsDigit(Char(s, n))

\* strconv.ParseFloat(s, 64) on the decimal integers (an optional sign, then
\* digits); every other text of the model's alphabet is a syntax error.
ParseFloat(s) ==
    LET signed == Len(s) > 0 /\ Char(s, 1) \in {"-", "+"}
        body == IF signed THEN SubSeq(s, 2, Len(s)) ELSE s
    IN IF AllDigits(body)
       THEN [val |-> IF signed /\ Char(s, 1) = "-" THEN 0 - DecimalVal(body, 0)
                     ELSE DecimalVal(body, 0),
             err |-> NoErr]
       ELSE [val |-> 0,
             err |-> Errorf("strconv.ParseFloat: parsing \"" \o s \o "\": invalid syntax")]

\* strconv.ParseBool
ParseBool(s) ==
    IF s \in {"1", "t", "T", "TRUE", "true", "True"} THEN [val |-> TRUE, err |-> NoErr]
    ELSE IF s \in {"0", "f", "F", "FALSE", "false", "False"} THEN [val |-> FALSE, err |-> NoErr]
    ELSE [val |-> FALSE,
          err |-> Errorf("strconv.ParseBool: parsing \"" \o s \o "\": invalid syntax")]

-----------------------------------------------------------------------------
(* parser.go: the descriptor (struct tag) grammar                          *)

FieldMeta(name) ==
    [Name |-> name, Type |-> "string", Scope |-> "global", Mode |-> "last",
     Args |-> <<>>, DefaultValue |-> Nil, Help |-> "", Required |-> FALSE,
     Complete |-> "", Suffix |-> "", Enum |-> <<>>]

\* braceDepth when parseTagParts' loop reaches the n-th character.
BraceDepth(tag, n) ==
    Cardinality({m \in 1..(n - 1) : Char(tag, m) = "{"})
        - Cardinality({m \in 1..(n - 1) : Char(tag, m) = "}"})

\* The positions at which parseTagParts' loop closes a part: a comma met
\* with braceDepth = 0.
TagSeparators(tag) == {n \in 1..Len(tag) : Char(tag, n) = "," /\ BraceDepth(tag, n) = 0}

\* The parts are the texts between consecutive separators; the text after
\* the last separator is a part only when it is not empty.
parseTagParts(tag) ==
    LET seps == TagSeparators(tag)
        k == Cardinality(seps)
        sep(j) == CHOOSE n \in seps : Cardinality({m \in seps : m < n}) = j - 1
        from(j) == IF j = 1 THEN 1 ELSE sep(j - 1) + 1
        to(j) == IF j = k + 1 THEN Len(tag) ELSE sep(j) - 1
        closed == [j \in 1..k |-> SubSeq(tag, from(j), to(j))]
        final == SubSeq(tag, from(k + 1), Len(tag))
    IN IF Len(final) > 0 THEN Append(closed, final) ELSE closed

FieldTypes == {"string", "field", "file", "number", "flag", "multi"}

parseFieldType(s, meta) ==
    IF s \in FieldTypes
    THEN [meta |-> [meta EXCEPT !.Type = s], err |-> NoErr]
    ELSE [meta |-> meta, err |-> Errorf("unknown field type: " \o s)]

parseFieldScope(s, meta) ==
    IF s \in {"global", "local"}
    THEN [meta |-> [meta EXCEPT !.Scope = s], err |-> NoErr]
    ELSE [meta |-> meta, err |-> Errorf("unknown field scope: " \o s)]

parseFieldMode(s, meta) ==
    IF s \in {"last", "list"}
    THEN [meta |-> [meta EXCEPT !.Mode = s], err |-> NoErr]
    ELSE [meta |-> meta, err |-> Errorf("unknown field mode: " \o s)]

parseDefaultValue(value, fieldType) ==
    CASE fieldType = "number" ->
            IF ParseFloat(value).err = NoErr THEN Num(ParseFloat(value).val) ELSE Num(0)
      [] fieldType = "flag" ->
            IF ParseBool(value).err = NoErr THEN Bool(ParseBool(value).val) ELSE Bool(FALSE)
      [] OTHER -> Str(value)

parseArgumentType(s) ==
    IF s \in {"string", "field", "content", "file", "number"} THEN s ELSE "string"

ArgumentSpecsOf(parts) ==
    [n \in 1..Len(parts) |->
        [Name |-> TrimSpace(parts[n]), Type |-> parseArgumentType(TrimSpace(parts[n]))]]

parseArgumentSpecs(value) ==
    IF Contains(value, ":") THEN ArgumentSpecsOf(Split(value, ":"))
    ELSE ArgumentSpecsOf(Split(value, ","))

TrimAll(parts) == [n \in 1..Len(parts) |-> TrimSpace(parts[n])]

parseEnumValues(value) ==
    IF Contains(value, ",") THEN TrimAll(Split(value, ","))
    ELSE IF Contains(value, ":") THEN TrimAll(Split(value, ":"))
    ELSE <<TrimSpace(value)>>

parseKeyValue(kv, meta) ==
    LET parts == SplitN2(kv, "=")
    IN IF Len(parts) # 2
       THEN [meta |-> meta, err |-> Errorf("invalid key=value pair: " \o kv)]
       ELSE LET key == TrimSpace(parts[1])
                value == TrimSpace(parts[2])
            IN CASE key = "help" -> [meta |-> [meta EXCEPT !.Help = value], err |-> NoErr]
                 [] key = "default" ->
                        [meta |-> [meta EXCEPT !.DefaultValue =
                                      parseDefaultValue(value, meta.Type)],
                         err |-> NoErr]
                 [] key = "required" ->
                        IF ParseBool(value).err = NoErr
                        THEN [meta |-> [meta EXCEPT !.Required = ParseBool(value).val],
                              err |-> NoErr]
                        ELSE [meta |-> [meta EXCEPT !.Required = FALSE],
                              err |-> Errorf("invalid boolean for required: " \o value)]
                 [] key = "complete" ->
                        [meta |-> [meta EXCEPT !.Complete = value], err |-> NoErr]
                 [] key = "args" ->
                        [meta |-> [meta EXCEPT !.Args = parseArgumentSpecs(value)],
                         err |-> NoErr]
                 [] key = "suffix" -> [meta |-> [meta EXCEPT !.Suffix = value], err |-> NoErr]
                 [] key = "enum" ->
                        [meta |-> [meta EXCEPT !.Enum = parseEnumValues(value)],
                         err |-> NoErr]
                 [] OTHER -> [meta |-> meta, err |-> Errorf("unknown key in tag: " \o key)]

\* One iteration of parseFieldTag's loop, for parts[n] (the code's i is n - 1).
TagPart(parts, n, meta) ==
    LET part == TrimSpace(parts[n])
    IN IF part = "" THEN [meta |-> meta, err |-> NoErr]
       ELSE IF Contains(part, "=") THEN parseKeyValue(part, meta)
       ELSE CASE n - 1 = 0 -> parseFieldType(part, meta)
              [] n - 1 = 1 -> parseFieldScope(part, meta)
              [] n - 1 = 2 -> parseFieldMode(part, meta)
              [] OTHER -> [meta |-> meta, err |-> NoErr]

RECURSIVE TagLoop(_, _, _)
TagLoop(parts, n, meta) ==
    IF n > Len(parts) THEN [meta |-> meta, err |-> NoErr]
    ELSE LET r == TagPart(parts, n, meta)
         IN IF r.err # NoErr THEN r ELSE TagLoop(parts, n + 1, r.meta)

parseFieldTag(fieldName, tag) ==
    LET parts == parseTagParts(tag)
    IN IF Len(parts) = 0
       THEN [meta |-> FieldMeta(fieldName), err |-> Errorf("empty tag")]
       ELSE TagLoop(parts, 1, FieldMeta(fieldName))

\* The loop body of parseFlagName for one rune at 0-based index n.
FlagRune(c, n) ==
    (IF n > 0 /\ IsUpper(c) THEN "-" ELSE "") \o LowerChar(c)

RECURSIVE FlagRunes(_, _)
FlagRunes(fieldName, n) ==
    IF n >= Len(fieldName) THEN ""
    ELSE FlagRune(Char(fieldName, n + 1), n) \o FlagRunes(fieldName, n + 1)

parseFlagName(fieldName) ==
    IF Len(fieldName) = 1 THEN "-" \o ToLower(fieldName)
    ELSE "-" \o FlagRunes(fieldName, 0)

-----------------------------------------------------------------------------
(* The configuration structs and the registry built from them              *)

Field(name, goType, tag) == [name |-> name, goType |-> goType, tag |-> tag]

ChartConfig == <<
    Field("X", "string", "field,global,last,help=Use field for X axis"),
    Field("Y", "[]string", "field,local,list,help=Use field for Y axis"),
    Field("Match", "[]map[string]interface{}",
          "multi,local,list,args=field:content,help=Filter data by field matching content"),
    Field("Right", "bool", "flag,local,last,help=Use right-hand scale"),
    Field("Title", "string", "string,global,last,help=Chart title,default=Chart"),
    Field("Type", "string",
          "string,global,last,help=Chart type: bar/line/area,default=bar,enum=bar:line:area"),
    Field("Width", "float64", "number,global,last,help=Chart width in pixels,default=800"),
    Field("Height", "float64", "number,global,last,help=Chart height in pixels,default=400"),
    Field("Quiet", "bool", "flag,global,last,help=Suppress progress messages,default=true"),
    Field("Argv", "string", "file,global,last,help=Input TSV file,suffix=.[tc]sv") >>

TestCompletionConfig == <<
    Field("Name", "string", "string,global,last,help=Name field"),
    Field("Type", "string", "string,global,last,help=Type field,enum=bar:line:area,default=bar"),
    Field("Field", "string", "field,global,last,help=Field name"),
    Field("File", "string", "file,global,last,help=File path,suffix=.tsv"),
    Field("DataFile", "string", "file,global,last,help=Data file,suffix=.[tc]sv"),
    Field("Config", "string", "file,global,last,help=Config file,suffix=.{json,yaml}"),
    Field("Match", "[]map[string]interface{}",
          "multi,local,list,args=field:content,help=Match conditions") >>

\* One iteration of reflectFields' loop: r = [fields, err] so far.
ReflectFieldSkipping(field, r) ==
    IF field.tag = "" THEN r
    ELSE LET m == parseFieldTag(field.name, field.tag)
         IN IF m.err # NoErr THEN r
            ELSE [fields |-> Append(r.fields, m.meta), err |-> NoErr]

ReflectField(field, r) ==
    IF field.tag = "" THEN r
    ELSE LET m == parseFieldTag(field.name, field.tag)
         IN IF m.err # NoErr
            THEN [fields |-> <<>>,
                  err |-> Errorf("parsing field " \o field.name \o ": " \o ErrText(m.err))]
            ELSE [fields |-> Append(r.fields, m.meta), err |-> NoErr]

RECURSIVE ReflectFrom(_, _, _)
ReflectFrom(st, n, r) ==
    IF n > Len(st) \/ r.err # NoErr THEN r
    ELSE ReflectFrom(st, n + 1, ReflectField(st[n], r))

reflectFields(st) == ReflectFrom(st, 1, [fields |-> <<>>, err |-> NoErr])

\* NewCommand(config): the returned pointer, the fields of the command it
\* points to, and the error.
NewCommand(st) ==
    LET r == reflectFields(st)
    IN IF r.err # NoErr
       THEN [cmd |-> "nil", fields |-> <<>>,
             err |-> Errorf("reflecting fields: " \o ErrText(r.err))]
       ELSE [cmd |-> "GSCommand", fields |-> r.fields, err |-> NoErr]

ChartFields == NewCommand(ChartConfig).fields
TestCompletionFields == NewCommand(TestCompletionConfig).fields

StructOf(c) == IF c = "ChartConfig" THEN ChartConfig ELSE TestCompletionConfig
FieldsOf(c) == IF c = "ChartConfig" THEN ChartFields ELSE TestCompletionFields

\* The zero value of a struct field of the given Go type.
Zero(goType) ==
    CASE goType = "string" -> Str("")
      [] goType = "float64" -> Num(0)
      [] goType = "bool" -> Bool(FALSE)
      [] OTHER -> [t |-> goType, v |-> <<>>]

ZeroConfig(st) ==
    [k \in {st[n].name : n \in DOMAIN st} |->
        Zero((CHOOSE f \in {st[n] : n \in DOMAIN st} : f.name = k).goType)]

-----------------------------------------------------------------------------
(* command.go: GSCommand.Parse                                              *)

ClauseSet(fieldMap, isNegated) == [Fields |-> fieldMap, IsNegated |-> isNegated]

getStringSlice(m, k) ==
    IF k \in DOMAIN m /\ m[k].t = "[]string" THEN m[k].v ELSE <<>>

\* parseFlagName on the field names of the two structs, computed once.
FlagNames ==
    [k \in {ChartConfig[n].name : n \in DOMAIN ChartConfig}
            \cup {TestCompletionConfig[n].name : n \in DOMAIN TestCompletionConfig}
        |-> parseFlagName(k)]

\* The first descriptor whose flag name is flagName, or 0 (a nil fieldMeta).
FindField(flds, flagName) ==
    LET hits == {n \in DOMAIN flds : FlagNames[flds[n].Name] = flagName}
    IN IF hits = {} THEN 0 ELSE CHOOSE n \in hits : \A m \in hits : n <= m

parseValue(value, fieldType) ==
    CASE fieldType \in {"string", "field", "file"} -> [val |-> Str(value), err |-> NoErr]
      [] fieldType = "number" ->
            [val |-> Num(ParseFloat(value).val), err |-> ParseFloat(value).err]
      [] fieldType = "flag" ->
            [val |-> Bool(ParseBool(value).val), err |-> ParseBool(value).err]
      [] OTHER -> [val |-> Str(value), err |-> NoErr]

\* parseValueWithValidation without the check against the enum.
parseValueUnvalidated(value, fieldMeta) == parseValue(value, fieldMeta.Type)

parseValueWithValidation(value, fieldMeta) ==
    LET parsed == parseValue(value, fieldMeta.Type)
    IN IF parsed.err # NoErr THEN [val |-> Nil, err |-> parsed.err]
       ELSE IF /\ fieldMeta.Type = "string"
               /\ Len(fieldMeta.Enum) > 0
               /\ ~\E n \in DOMAIN fieldMeta.Enum : value = fieldMeta.Enum[n]
       THEN [val |-> Nil,
             err |-> Errorf("invalid value '" \o value \o "', must be one of: "
                            \o Join(fieldMeta.Enum, ", "))]
       ELSE parsed

parseValueByArgumentType(value, argType) ==
    IF argType = "number"
    THEN [val |-> Num(ParseFloat(value).val), err |-> ParseFloat(value).err]
    ELSE [val |-> Str(value), err |-> NoErr]

\* StoreValue that overwrites under either mode.
StoreOverwriting(target, fieldMeta, val) == Put(target, fieldMeta.Name, val)

\* The list-or-last store at the end of both value branches of
\* parseFlagWithNegation.
StoreValue(target, fieldMeta, val) ==
    IF fieldMeta.Mode = "list"
    THEN IF fieldMeta.Name \notin DOMAIN target
         THEN Put(target, fieldMeta.Name, List(<<val>>))
         ELSE IF target[fieldMeta.Name].t = "[]interface{}"
         THEN Put(target, fieldMeta.Name, List(Append(target[fieldMeta.Name].v, val)))
         ELSE Put(target, fieldMeta.Name, List(<<target[fieldMeta.Name], val>>))
    ELSE Put(target, fieldMeta.Name, val)

\* WrapNegated that forgets the negation.
WrapNever(parsedValue, negated) == parsedValue

\* "For single-argument switches, wrap in map if negated".
WrapNegated(parsedValue, negated) ==
    IF negated
    THEN Map([k \in {"value", "_negated"} |-> IF k = "value" THEN parsedValue ELSE Bool(TRUE)])
    ELSE parsedValue

\* "Add negation information if the switch was negated".
MarkNegated(argValues, negated) ==
    IF negated THEN Put(argValues, "_negated", Bool(TRUE)) ELSE argValues

\* Consumed that takes a multi-argument switch for a single-argument one.
ConsumedAsSingle(fieldMeta) == IF fieldMeta.Type = "flag" THEN 1 ELSE 2

\* The count parseFlagWithNegation returns on success: the switch and the
\* arguments of its kind.
Consumed(fieldMeta) ==
    CASE fieldMeta.Type = "flag" -> 1
      [] fieldMeta.Type = "multi" -> Len(fieldMeta.Args) + 1
      [] OTHER -> 2

\* The argument map of a multi-argument switch: the first argument whose
\* value does not parse aborts, otherwise every ArgumentSpec name is bound.
MultiValues(pargs, flagName, fieldMeta, negated) ==
    LET bad == {n \in DOMAIN fieldMeta.Args :
                    parseValueByArgumentType(pargs[n + 1], fieldMeta.Args[n].Type).err # NoErr}
        first == CHOOSE n \in bad : \A m \in bad : n <= m
        names == {fieldMeta.Args[n].Name : n \in DOMAIN fieldMeta.Args}
        last(name) == CHOOSE n \in DOMAIN fieldMeta.Args :
                        /\ fieldMeta.Args[n].Name = name
                        /\ \A m \in DOMAIN fieldMeta.Args :
                              fieldMeta.Args[m].Name = name => m <= n
        argValues == [name \in names |->
                        parseValueByArgumentType(pargs[last(name) + 1],
                                                 fieldMeta.Args[last(name)].Type).val]
    IN IF bad # {}
       THEN [val |-> Nil,
             err |-> Errorf("parsing argument " \o fieldMeta.Args[first].Name \o " for "
                            \o flagName \o ": "
                            \o ErrText(parseValueByArgumentType(
                                   pargs[first + 1], fieldMeta.Args[first].Type).err))]
       ELSE [val |-> Map(MarkNegated(argValues, negated)), err |-> NoErr]

\* parseFlagWithNegation(args, clause, global, negated) on cmd.fields = flds:
\* the number of tokens consumed, the error, and the two maps as it leaves them.
parseFlagWithNegation(flds, pargs, clauseFields, glob, negated) ==
    LET flagName == pargs[1]
        n == FindField(flds, flagName)
        fieldMeta == flds[n]
        isGlobal == fieldMeta.Scope = "global"
        target == IF isGlobal THEN glob ELSE clauseFields
        out(consumed, e, newTarget) ==
            [consumed |-> consumed, err |-> e,
             Fields |-> IF isGlobal THEN clauseFields ELSE newTarget,
             global |-> IF isGlobal THEN newTarget ELSE glob]
        fail(msg) == [consumed |-> 0, err |-> Errorf(msg),
                      Fields |-> clauseFields, global |-> glob]
    IN IF Len(pargs) = 0 THEN fail("no arguments to parse")
       ELSE IF n = 0 THEN fail("unknown flag: " \o flagName)
       ELSE CASE fieldMeta.Type = "flag" ->
                    out(Consumed(fieldMeta), NoErr, Put(target, fieldMeta.Name, Bool(TRUE)))
              [] fieldMeta.Type = "multi" ->
                    IF Len(fieldMeta.Args) = 0
                    THEN fail("multi-argument flag " \o flagName
                              \o " has no argument specification")
                    ELSE IF Len(pargs) < Len(fieldMeta.Args) + 1
                    THEN fail("flag " \o flagName \o " requires "
                              \o ToString(Len(fieldMeta.Args)) \o " arguments")
                    ELSE LET mv == MultiValues(pargs, flagName, fieldMeta, negated)
                         IN IF mv.err # NoErr THEN fail(ErrText(mv.err))
                            ELSE out(Consumed(fieldMeta), NoErr,
                                     StoreValue(target, fieldMeta, mv.val))
              [] OTHER ->
                    IF Len(pargs) < 2 THEN fail("flag " \o flagName \o " requires a value")
                    ELSE LET pv == parseValueWithValidation(pargs[2], fieldMeta)
                         IN IF pv.err # NoErr
                            THEN fail("parsing value for " \o flagName \o ": "
                                      \o ErrText(pv.err))
                            ELSE out(Consumed(fieldMeta), NoErr,
                                     StoreValue(target, fieldMeta,
                                                WrapNegated(pv.val, negated)))

\* The locals of Parse's loop, as one record.
Scan == [i |-> i, clauses |-> clauses, current |-> current, global |-> global,
         roles |-> roles, pc |-> pc, err |-> err]

\* NewClause with the separators' meanings exchanged.
NewClauseExchanged(s, negated) ==
    [s EXCEPT !.clauses = Append(@, s.current),
              !.current = ClauseSet(NoFields, ~negated),
              !.i = @ + 1,
              !.roles = Append(@, "separator")]

\* case arg == "+" (negated = TRUE) and case arg == "-" (negated = FALSE):
\* close the current clause and open a new one.
NewClause(s, negated) ==
    [s EXCEPT !.clauses = Append(@, s.current),
              !.current = ClauseSet(NoFields, negated),
              !.i = @ + 1,
              !.roles = Append(@, "separator")]

\* case strings.HasPrefix(arg, "+") (negated = TRUE) and
\* case strings.HasPrefix(arg, "-") (negated = FALSE), for len(arg) > 1; the
\* else branches of both cases are dead code, the bare "+" and "-" being
\* taken by the first two cases.
ParseSwitch(flds, a, s, negated) ==
    LET arg == a[s.i + 1]
        rest == SubSeq(a, s.i + 2, Len(a))
        pargs == IF negated THEN <<"-" \o SubSeq(arg, 2, Len(arg))>> \o rest
                 ELSE SubSeq(a, s.i + 1, Len(a))
        r == parseFlagWithNegation(flds, pargs, s.current.Fields, s.global, negated)
    IN IF r.err # NoErr
       THEN [s EXCEPT !.pc = "failed", !.err = r.err, !.clauses = <<>>]
       ELSE [s EXCEPT !.current = [@ EXCEPT !.Fields = r.Fields],
                      !.global = r.global,
                      !.i = @ + r.consumed,
                      !.roles = @ \o <<"switch">> \o [k \in 1..(r.consumed - 1) |-> "value"]]

IsTabularFile(arg) == HasSuffix(ToLower(arg), ".tsv") \/ HasSuffix(ToLower(arg), ".csv")

\* A default case that steps over the token after the positional one.
PositionalArgSkipping(a, s) ==
    LET arg == a[s.i + 1]
        withArg == Put(s.current.Fields, "_args",
                       StrSlice(Append(getStringSlice(s.current.Fields, "_args"), arg)))
    IN [s EXCEPT !.current = [@ EXCEPT !.Fields = withArg],
                 !.i = @ + 2,
                 !.roles = Append(@, "positional")]

\* default: a positional argument.
PositionalArg(a, s) ==
    LET arg == a[s.i + 1]
        withArg == Put(s.current.Fields, "_args",
                       StrSlice(Append(getStringSlice(s.current.Fields, "_args"), arg)))
        adopt == /\ IsTabularFile(arg)
                 /\ "Argv" \notin DOMAIN withArg
                 /\ "Argv" \notin DOMAIN s.global
    IN [s EXCEPT !.current = [@ EXCEPT !.Fields =
                                 IF adopt THEN Put(withArg, "Argv", Str(arg)) ELSE withArg],
                 !.i = @ + 1,
                 !.roles = Append(@, "positional")]

\* ApplyGlobal in which the global value wins over the clause's own.
ApplyGlobalOverriding(fieldMap, glob) ==
    [k \in DOMAIN fieldMap \cup DOMAIN glob |->
        IF k \in DOMAIN glob THEN glob[k] ELSE fieldMap[k]]

\* "Apply global fields to all clauses": a clause keeps what it defines.
ApplyGlobal(fieldMap, glob) ==
    [k \in DOMAIN fieldMap \cup DOMAIN glob |->
        IF k \in DOMAIN fieldMap THEN fieldMap[k] ELSE glob[k]]

\* applyDefaults, for one clause's fields (scope = "" for every scope), and
\* "Apply defaults to global fields too" (scope = "global").
WithDefaults(flds, fieldMap, scope) ==
    LET given == {n \in DOMAIN flds :
                    /\ scope \in {"", flds[n].Scope}
                    /\ flds[n].Name \notin DOMAIN fieldMap
                    /\ flds[n].DefaultValue # Nil}
        meta(k) == flds[CHOOSE n \in given : flds[n].Name = k]
    IN [k \in DOMAIN fieldMap \cup {flds[n].Name : n \in given} |->
            IF k \in DOMAIN fieldMap THEN fieldMap[k] ELSE meta(k).DefaultValue]

applyDefaults(flds, cs) ==
    [j \in DOMAIN cs |-> [cs[j] EXCEPT !.Fields = WithDefaults(flds, @, "")]]

\* applyGlobalToConfig: a struct field takes the global value of its name
\* when the value's dynamic type is the field's type.
applyGlobalToConfig(conf, glob) ==
    [k \in DOMAIN conf |->
        IF k \in DOMAIN glob /\ glob[k].t = conf[k].t THEN glob[k] ELSE conf[k]]

\* AllClauses that drops a trailing clause holding nothing.
AllClausesButEmpty(s) ==
    IF DOMAIN s.current.Fields = {} THEN s.clauses ELSE Append(s.clauses, s.current)

\* "Add final clause".
AllClauses(s) == Append(s.clauses, s.current)

\* After the loop: the trailing clause, the global values, the defaults, the
\* configuration struct.
ParseReturn(flds, s, conf) ==
    LET all == AllClauses(s)
        merged == [j \in DOMAIN all |->
                      [all[j] EXCEPT !.Fields = ApplyGlobal(@, s.global)]]
        glob == WithDefaults(flds, s.global, "global")
    IN [clauses |-> applyDefaults(flds, merged),
        global |-> glob,
        config |-> applyGlobalToConfig(conf, glob)]

\* One iteration of Parse's loop: the switch statement.
LoopStep(flds, a, s) ==
    LET arg == a[s.i + 1]
    IN CASE arg = "+" -> NewClause(s, TRUE)
         [] arg = "-" -> NewClause(s, FALSE)
         [] arg \notin {"+", "-"} /\ HasPrefix(arg, "+") -> ParseSwitch(flds, a, s, TRUE)
         [] arg \notin {"+", "-"} /\ ~HasPrefix(arg, "+") /\ HasPrefix(arg, "-") ->
                ParseSwitch(flds, a, s, FALSE)
         [] OTHER -> PositionalArg(a, s)

RECURSIVE ScanFrom(_, _, _)
ScanFrom(flds, a, s) ==
    IF s.pc # "scan" \/ s.i >= Len(a) THEN s ELSE ScanFrom(flds, a, LoopStep(flds, a, s))

\* Parse(args) as a function: the returned clauses and error, the tokens'
\* roles, and the configuration struct as the call leaves it.
Parse(flds, a, conf) ==
    LET s == ScanFrom(flds, a,
                      [i |-> 0, clauses |-> <<>>, current |-> ClauseSet(NoFields, FALSE),
                       global |-> NoFields, roles |-> <<>>, pc |-> "scan", err |-> NoErr])
        r == ParseReturn(flds, s, conf)
    IN IF s.pc = "failed"
       THEN [clauses |-> <<>>, err |-> s.err, roles |-> s.roles, config |-> conf]
       ELSE [clauses |-> r.clauses, err |-> NoErr, roles |-> s.roles, config |-> r.config]

-----------------------------------------------------------------------------
(* The Commander side of the configuration structs                          *)

\* TestCompletionConfig.Validate
ValidateTestCompletion(conf) ==
    IF conf["Type"].v \notin {"bar", "line", "area"}
    THEN Errorf("invalid type: " \o conf["Type"].v)
    ELSE NoErr

\* ChartConfig.Validate: "Enum validation now handled during parsing".
ValidateChart(conf) == NoErr

Validate(c, conf) ==
    IF c = "TestCompletionConfig" THEN ValidateTestCompletion(conf) ELSE ValidateChart(conf)

\* TestValidationIntegration's "Apply clauses to config": every clause's
\* Type, when it is a string, is assigned to config.Type, in clause order.
RECURSIVE ApplyClausesToConfig(_, _, _)
ApplyClausesToConfig(conf, cs, j) ==
    IF j > Len(cs) THEN conf
    ELSE ApplyClausesToConfig(
            IF "Type" \in DOMAIN cs[j].Fields /\ cs[j].Fields["Type"].t = "string"
            THEN [conf EXCEPT !["Type"] = cs[j].Fields["Type"]]
            ELSE conf,
            cs, j + 1)

-----------------------------------------------------------------------------
(* The files and directories completion reads                               *)

Tab == "\t"

\* The data rows of big.tsv: more rows than getFieldValues scans, the value
\* "late" standing only after the rows it scans.
BigRows == 101
BigRow(n) ==
    IF n = BigRows THEN "late" \o Tab \o "z"
    ELSE IF n % 2 = 0 THEN "even" \o Tab \o "x"
    ELSE "odd" \o Tab \o "y"

\* os.Open and bufio.Scanner: the lines of every file that can be opened; a
\* name outside the domain cannot be opened, empty.tsv has no line.
Files ==
    [f \in {"data.tsv", "data.csv", "empty.tsv", "big.tsv"} |->
        CASE f = "data.tsv" -> <<"#name" \o Tab \o "dept",
                                 "bob" \o Tab \o "Ops",
                                 "Alice" \o Tab \o "Eng",
                                 " " \o Tab \o "Eng",
                                 "alan" \o Tab \o "Ops",
                                 "Alice" \o Tab \o "Ops">>
          [] f = "data.csv" -> <<"name,dept", "Bob,Ops", "Alice,Eng">>
          [] f = "empty.tsv" -> <<>>
          [] OTHER -> <<"name" \o Tab \o "dept">> \o [n \in 1..BigRows |-> BigRow(n)]]

\* os.ReadDir: the entries of every directory that can be read, sorted by
\* name; a path outside the domain cannot be read.
Entry(name, isDir) == [Name |-> name, IsDir |-> isDir]
Dirs ==
    [d \in {".", "docs", "docs/"} |->
        IF d = "."
        THEN <<Entry(".cache", TRUE), Entry(".env.tsv", FALSE), Entry("DATA.CSV", FALSE),
               Entry("data.json", FALSE), Entry("data.tsv", FALSE), Entry("data.tsv.d", TRUE),
               Entry("docs", TRUE), Entry("notes.txt", FALSE)>>
        ELSE <<Entry("d.tsv", FALSE), Entry("deep", TRUE), Entry("draft.csv", FALSE)>>]

\* The bytes of the model's texts in ascending order, and Go's s < t on
\* strings.
Bytes == <<Tab, " ", "#", "*", "+", ",", "-", ".", "/">> \o Digits \o <<"?">> \o Upper
            \o <<"[", "]", "^", "_">> \o Lower \o <<"{", "}">>
Byte(c) == CHOOSE n \in DOMAIN Bytes : Bytes[n] = c
StringLess(s, t) ==
    \E n \in 1..(Len(t)) :
        /\ n <= Len(s) + 1
        /\ SubSeq(s, 1, n - 1) = SubSeq(t, 1, n - 1)
        /\ n = Len(s) + 1 \/ Byte(Char(s, n)) < Byte(Char(t, n))

\* The strings of S in ascending order.
RECURSIVE Sorted(_)
Sorted(S) ==
    IF S = {} THEN <<>>
    ELSE LET least == CHOOSE s \in S : \A t \in S \ {s} : StringLess(s, t)
         IN <<least>> \o Sorted(S \ {least})

\* The numbers of S in ascending order.
RECURSIVE InOrder(_)
InOrder(S) ==
    IF S = {} THEN <<>>
    ELSE LET k == CHOOSE x \in S : \A y \in S : x <= y
         IN <<k>> \o InOrder(S \ {k})

\* The elements of a sequence that satisfy Keep, in order.
Filter(ss, Keep(_)) ==
    LET at == InOrder({n \in DOMAIN ss : Keep(ss[n])})
    IN [n \in DOMAIN at |-> ss[at[n]]]

HasPrefixFold(s, partial) == HasPrefix(ToLower(s), ToLower(partial))

IsAlnum(c) == IsDigit(c) \/ IsUpper(c) \/ \E n \in DOMAIN Lower : Lower[n] = c

\* strings.TrimLeftFunc(header, not alphanumeric)
RECURSIVE TrimLeftNonAlnum(_)
TrimLeftNonAlnum(s) ==
    IF Len(s) > 0 /\ ~IsAlnum(Char(s, 1)) THEN TrimLeftNonAlnum(SubSeq(s, 2, Len(s))) ELSE s

NonEmpty(s) == s # ""

parseTSVHeader(header) ==
    LET h == TrimLeftNonAlnum(header)
        cols == IF Contains(h, Tab) THEN Split(h, Tab) ELSE Split(h, ",")
    IN Filter(TrimAll(cols), NonEmpty)

-----------------------------------------------------------------------------
(* Completion: the cached lookups                                           *)

\* cmd.scanDepth, as NewCommand sets it.
scanDepth == 100

\* An empty cache map, and the command's caches with the files opened so far
\* in the call, as one record.
NoCache == [k \in {} |-> <<>>]
Caches == [fieldCache |-> fieldCache, contentCache |-> contentCache, opened |-> <<>>,
           lookups |-> lookups]

\* The lookup of key from the state io has returned r: its key, its result
\* and whether it opened the file are added to the lookups so far.
Looked(key, io, r) ==
    [r EXCEPT !.io.lookups = Append(@, [key |-> key, val |-> r.val, err |-> r.err,
                                        read |-> r.io.opened # io.opened])]

\* The error of os.Open on a name that is not a file.
OpenError(filename) ==
    Errorf("opening file " \o filename \o ": open " \o filename
           \o ": no such file or directory")

\* getFields(filename): the header's field names, from the cache or the file.
getFields(io, filename) ==
    Looked(<<filename>>, io,
        IF filename \in DOMAIN io.fieldCache
        THEN [val |-> io.fieldCache[filename], err |-> NoErr, io |-> io]
        ELSE LET read == [io EXCEPT !.opened = Append(@, filename)]
             IN IF filename \notin DOMAIN Files
                THEN [val |-> <<>>, err |-> OpenError(filename), io |-> read]
                ELSE IF Len(Files[filename]) = 0
                THEN [val |-> <<>>, err |-> Errorf("file " \o filename \o " is empty"),
                      io |-> read]
                ELSE [val |-> parseTSVHeader(Files[filename][1]), err |-> NoErr,
                      io |-> [read EXCEPT !.fieldCache =
                                 Put(@, filename, parseTSVHeader(Files[filename][1]))]])

\* completeField(filename, partial)
completeField(io, filename, partial) ==
    LET r == getFields(io, filename)
    IN IF r.err # NoErr THEN r
       ELSE [r EXCEPT !.val = Filter(r.val, LAMBDA f : HasPrefixFold(f, partial))]

\* The value a data line holds for the field at 0-based index fieldIndex:
\* split on tabs, on commas when the tabs give too few parts; "" when the
\* line has no such part.
RowValue(line, fieldIndex) ==
    LET tabbed == Split(line, Tab)
        parts == IF Len(tabbed) <= fieldIndex THEN Split(line, ",") ELSE tabbed
    IN IF fieldIndex < Len(parts) THEN TrimSpace(parts[fieldIndex + 1]) ELSE ""

\* The data lines getFieldValues scans.
ScannedRows(lines) ==
    SubSeq(lines, 2, IF Len(lines) - 1 < scanDepth THEN Len(lines) ELSE scanDepth + 1)

\* getFieldValues(filename, fieldName): the sorted distinct values of the
\* field, from the cache or the file.
getFieldValues(io, filename, fieldName) ==
    Looked(<<filename, fieldName>>, io,
        IF filename \in DOMAIN io.contentCache /\ fieldName \in DOMAIN io.contentCache[filename]
        THEN [val |-> io.contentCache[filename][fieldName], err |-> NoErr, io |-> io]
        ELSE LET read == [io EXCEPT
                             !.contentCache = IF filename \in DOMAIN @ THEN @
                                              ELSE Put(@, filename, NoCache),
                             !.opened = Append(@, filename)]
             IN IF filename \notin DOMAIN Files
                THEN [val |-> <<>>, err |-> OpenError(filename), io |-> read]
                ELSE IF Len(Files[filename]) = 0
                THEN [val |-> <<>>, err |-> Errorf("file " \o filename \o " is empty"),
                      io |-> read]
                ELSE LET header == parseTSVHeader(Files[filename][1])
                         at == {n \in DOMAIN header : header[n] = fieldName}
                         fieldIndex == (CHOOSE n \in at : \A m \in at : n <= m) - 1
                         rows == ScannedRows(Files[filename])
                         values == {RowValue(rows[n], fieldIndex) : n \in DOMAIN rows} \ {""}
                     IN IF at = {}
                        THEN [val |-> <<>>, err |-> NoErr, io |-> read]
                        ELSE [val |-> Sorted(values), err |-> NoErr,
                              io |-> [read EXCEPT !.contentCache[filename] =
                                         Put(@, fieldName, Sorted(values))]])

\* completeContent(filename, fieldName, partial): "Return empty on error
\* rather than failing".
completeContent(io, filename, fieldName, partial) ==
    LET r == getFieldValues(io, filename, fieldName)
    IN IF r.err # NoErr THEN [r EXCEPT !.val = <<>>, !.err = NoErr]
       ELSE [r EXCEPT !.val = Filter(r.val, LAMBDA v : HasPrefixFold(v, partial))]

-----------------------------------------------------------------------------
(* Completion: flag names, enum values and files                            *)

commonFlags == <<"-help", "-man", "-complete", "-bash-completion">>

\* Spellings without the negated ones.
FlagSpellingsPositive(flds) ==
    [n \in 1..Len(flds) |-> FlagNames[flds[n].Name]] \o commonFlags

\* The spellings completeFlags goes through: -name then +name for every
\* field in declaration order, then the common flags.
FlagSpellings(flds) ==
    [n \in 1..(2 * Len(flds)) |->
        IF n % 2 = 1 THEN FlagNames[flds[(n + 1) \div 2].Name]
        ELSE "+" \o SubSeq(FlagNames[flds[n \div 2].Name], 2,
                           Len(FlagNames[flds[n \div 2].Name]))]
        \o commonFlags

\* completeFlags(partial)
completeFlags(flds, partial) ==
    Filter(FlagSpellings(flds), LAMBDA flag : HasPrefixFold(flag, partial))

\* A completion that offers every enum value, whatever the partial word.
completeEnumUnfiltered(fieldMeta, partial) ==
    IF fieldMeta = <<>> THEN <<>> ELSE fieldMeta[1].Enum

\* completeEnum(fieldMeta, partial); fieldMeta is <<>> for nil.
completeEnum(fieldMeta, partial) ==
    IF fieldMeta = <<>> THEN <<>>
    ELSE Filter(fieldMeta[1].Enum, LAMBDA v : HasPrefixFold(v, partial))

\* A character class of a glob, [...] without the brackets: malformed when
\* it is empty or a range lacks an end, and the characters it holds.
ClassBody(class) == IF HasPrefix(class, "^") THEN SubSeq(class, 2, Len(class)) ELSE class
BadClass(class) ==
    \/ ClassBody(class) = ""
    \/ Char(ClassBody(class), 1) = "-"
    \/ Char(ClassBody(class), Len(ClassBody(class))) = "-"
InClass(c, class) ==
    LET body == ClassBody(class)
        hit == \E n \in 1..Len(body) :
                  \/ Char(body, n) # "-" /\ Char(body, n) = c
                  \/ /\ n + 2 <= Len(body)
                     /\ Char(body, n + 1) = "-"
                     /\ Byte(Char(body, n)) <= Byte(c)
                     /\ Byte(c) <= Byte(Char(body, n + 2))
    IN IF HasPrefix(class, "^") THEN ~hit ELSE hit

\* filepath.ErrBadPattern: a "[" without a well-formed class after it.
RECURSIVE BadPattern(_)
BadPattern(p) ==
    IF p = "" THEN FALSE
    ELSE IF Char(p, 1) # "[" THEN BadPattern(SubSeq(p, 2, Len(p)))
    ELSE LET close == IndexOf(SubSeq(p, 2, Len(p)), "]")
         IN \/ close = 0
            \/ BadClass(SubSeq(p, 2, close))
            \/ BadPattern(SubSeq(p, close + 2, Len(p)))

\* filepath.Match(p, s) for a well-formed pattern of literals, *, ? and
\* character classes (no escapes).
RECURSIVE GlobMatch(_, _)
GlobMatch(p, s) ==
    IF p = "" THEN s = ""
    ELSE LET rest == SubSeq(p, 2, Len(p))
             close == IndexOf(rest, "]")
         IN CASE Char(p, 1) = "*" ->
                    \E k \in 0..Len(s) :
                        /\ ~Contains(SubSeq(s, 1, k), "/")
                        /\ GlobMatch(rest, SubSeq(s, k + 1, Len(s)))
              [] Char(p, 1) = "?" ->
                    /\ Len(s) > 0
                    /\ Char(s, 1) # "/"
                    /\ GlobMatch(rest, SubSeq(s, 2, Len(s)))
              [] Char(p, 1) = "[" ->
                    /\ Len(s) > 0
                    /\ InClass(Char(s, 1), SubSeq(rest, 1, close - 1))
                    /\ GlobMatch(SubSeq(rest, close + 1, Len(rest)), SubSeq(s, 2, Len(s)))
              [] OTHER ->
                    /\ Len(s) > 0
                    /\ Char(s, 1) = Char(p, 1)
                    /\ GlobMatch(rest, SubSeq(s, 2, Len(s)))

ContainsAny(s, chars) == \E n \in 1..Len(s) : Char(s, n) \in chars

\* matchesBracePattern(filename, pattern)
matchesBracePattern(filename, pattern) ==
    LET start == IndexOf(pattern, "{")
        end == IndexOf(pattern, "}")
        prefix == SubSeq(pattern, 1, start - 1)
        suffix == SubSeq(pattern, end + 1, Len(pattern))
        options == Split(SubSeq(pattern, start + 1, end - 1), ",")
    IN IF start = 0 \/ end = 0 \/ start >= end THEN FALSE
       ELSE \E n \in DOMAIN options :
               HasSuffix(filename, prefix \o TrimSpace(options[n]) \o suffix)

\* A match that compares the file name and the pattern as they are written.
matchesSuffixPatternExact(filename, pattern) ==
    IF Contains(pattern, "{") /\ Contains(pattern, "}")
    THEN matchesBracePattern(filename, pattern)
    ELSE IF ContainsAny(pattern, {"*", "?", "[", "]"})
    THEN IF BadPattern("*" \o pattern) THEN HasSuffix(filename, pattern)
         ELSE GlobMatch("*" \o pattern, filename)
    ELSE HasSuffix(filename, pattern)

\* matchesSuffixPattern(filename, pattern)
matchesSuffixPattern(filename, pattern) ==
    LET f == ToLower(filename)
        p == ToLower(pattern)
    IN IF Contains(p, "{") /\ Contains(p, "}") THEN matchesBracePattern(f, p)
       ELSE IF ContainsAny(p, {"*", "?", "[", "]"})
       THEN IF BadPattern("*" \o p) THEN HasSuffix(f, p) ELSE GlobMatch("*" \o p, f)
       ELSE HasSuffix(f, p)

\* filepath.Dir, filepath.Base and filepath.Join on paths without "." and
\* ".." elements and without doubled separators.
LastSlash(path) ==
    LET at == {n \in 1..Len(path) : Char(path, n) = "/"}
    IN IF at = {} THEN 0 ELSE CHOOSE n \in at : \A m \in at : m <= n
RECURSIVE TrimSlashes(_)
TrimSlashes(path) ==
    IF Len(path) > 1 /\ HasSuffix(path, "/") THEN TrimSlashes(SubSeq(path, 1, Len(path) - 1))
    ELSE path
DirOf(path) ==
    IF LastSlash(path) = 0 THEN "."
    ELSE TrimSlashes(SubSeq(path, 1, LastSlash(path)))
BaseOf(path) == SubSeq(path, LastSlash(path) + 1, Len(path))
JoinPath(dir, name) ==
    IF TrimSlashes(dir) = "/" THEN "/" \o name ELSE TrimSlashes(dir) \o "/" \o name

\* A filesystem completion that ignores the suffix of the descriptor.
completeFilesAnySuffix(partial, fieldMeta) ==
    LET dir == IF HasSuffix(partial, "/") THEN partial
               ELSE IF Contains(partial, "/") THEN DirOf(partial) ELSE "."
        pattern == IF HasSuffix(partial, "/") THEN ""
                   ELSE IF Contains(partial, "/") THEN BaseOf(partial) ELSE partial
        listed(e) == /\ ~(HasPrefix(e.Name, ".") /\ ~HasPrefix(pattern, "."))
                     /\ HasPrefixFold(e.Name, pattern)
        fullPath(e) == IF dir = "." THEN e.Name ELSE JoinPath(dir, e.Name)
        isTsv(e) == HasSuffix(ToLower(e.Name), ".tsv")
        pick(Keep(_)) ==
            LET es == Filter(Dirs[dir], Keep)
            IN [n \in DOMAIN es |-> fullPath(es[n]) \o (IF es[n].IsDir THEN "/" ELSE "")]
    IN IF dir \notin DOMAIN Dirs THEN <<>>
       ELSE pick(LAMBDA e : listed(e) /\ ~e.IsDir /\ isTsv(e))
            \o pick(LAMBDA e : listed(e) /\ ~e.IsDir /\ ~isTsv(e))
            \o pick(LAMBDA e : listed(e) /\ e.IsDir)

\* completeFilesWithSuffix(partial, fieldMeta); fieldMeta is <<>> for nil.
completeFilesWithSuffix(partial, fieldMeta) ==
    LET dir == IF HasSuffix(partial, "/") THEN partial
               ELSE IF Contains(partial, "/") THEN DirOf(partial) ELSE "."
        pattern == IF HasSuffix(partial, "/") THEN ""
                   ELSE IF Contains(partial, "/") THEN BaseOf(partial) ELSE partial
        listed(e) == /\ ~(HasPrefix(e.Name, ".") /\ ~HasPrefix(pattern, "."))
                     /\ HasPrefixFold(e.Name, pattern)
        fullPath(e) == IF dir = "." THEN e.Name ELSE JoinPath(dir, e.Name)
        wanted(e) == fieldMeta # <<>> /\ fieldMeta[1].Suffix # ""
                        => matchesSuffixPattern(e.Name, fieldMeta[1].Suffix)
        isTsv(e) == HasSuffix(ToLower(e.Name), ".tsv")
        pick(Keep(_)) ==
            LET es == Filter(Dirs[dir], Keep)
            IN [n \in DOMAIN es |-> fullPath(es[n]) \o (IF es[n].IsDir THEN "/" ELSE "")]
    IN IF dir \notin DOMAIN Dirs THEN <<>>
       ELSE pick(LAMBDA e : listed(e) /\ ~e.IsDir /\ wanted(e) /\ isTsv(e))
            \o pick(LAMBDA e : listed(e) /\ ~e.IsDir /\ wanted(e) /\ ~isTsv(e))
            \o pick(LAMBDA e : listed(e) /\ e.IsDir)

\* completeFiles(partial)
completeFiles(partial) == completeFilesWithSuffix(partial, <<>>)

-----------------------------------------------------------------------------
(* Completion: the context of the cursor and complete                       *)

IsTabularName(arg) == HasSuffix(arg, ".tsv") \/ HasSuffix(arg, ".csv")
\* A test that knows only the "-" prefix.
IsPrefixedByMinus(arg) == HasPrefix(arg, "-")

IsPrefixed(arg) == HasPrefix(arg, "-") \/ HasPrefix(arg, "+")

\* findTSVFile(args): the first token that is a tabular file after -argv or
\* a -file switch, or a bare one; "" when there is none.
findTSVFile(a) ==
    LET at == {k \in DOMAIN a :
                  \/ /\ k > 1
                     /\ a[k - 1] = "-argv" \/ HasSuffix(a[k - 1], "-file")
                     /\ IsTabularName(a[k])
                  \/ /\ IsTabularName(a[k])
                     /\ ~HasPrefix(a[k], "-")
                     /\ \/ k = 1
                        \/ ~HasPrefix(a[k - 1], "-")
                        \/ a[k - 1] \in {"-", "+"}}
    IN IF at = {} THEN "" ELSE a[CHOOSE k \in at : \A m \in at : k <= m]

\* A lookback that skips every token that is not a switch of the command,
\* separators and unknown switches included.
findLastFlagAcrossClauses(flds, a, p) ==
    LET from == IF p > Len(a) - 1 THEN Len(a) ELSE p
        at == {k \in 1..from : /\ IsPrefixed(a[k])
                               /\ Len(a[k]) > 1
                               /\ FindField(flds, "-" \o SubSeq(a[k], 2, Len(a[k]))) # 0}
        k == CHOOSE x \in at : \A y \in at : y <= x
        n == FindField(flds, "-" \o SubSeq(a[k], 2, Len(a[k])))
    IN IF at = {}
       THEN [flagPos |-> -1, fieldMeta |-> <<>>]
       ELSE [flagPos |-> k - 1, fieldMeta |-> <<flds[n]>>]

\* findLastFlag(args, pos): the 0-based index and the descriptor (<<>> for
\* nil) of the nearest prefixed token before pos, when it is a switch of
\* the command.
findLastFlag(flds, a, p) ==
    LET from == IF p > Len(a) - 1 THEN Len(a) ELSE p
        at == {k \in 1..from : IsPrefixed(a[k])}
        k == CHOOSE x \in at : \A y \in at : y <= x
        n == FindField(flds, "-" \o SubSeq(a[k], 2, Len(a[k])))
    IN IF at = {} \/ Len(a[k]) <= 1 \/ n = 0
       THEN [flagPos |-> -1, fieldMeta |-> <<>>]
       ELSE [flagPos |-> k - 1, fieldMeta |-> <<flds[n]>>]

\* shouldUseBareFileCompletion(args, pos)
shouldUseBareFileCompletion(a, p) ==
    \/ p = 0
    \/ /\ p > 0
       /\ p - 1 < Len(a)
       /\ \/ a[p] \in {"+", "-"}
          \/ ~IsPrefixed(a[p])

CompletionContext(type) ==
    [Type |-> type, Current |-> "", TSVFile |-> "", FieldName |-> "",
     ArgumentIndex |-> 0, ArgumentSpec |-> <<>>, FieldMeta |-> <<>>]

\* The descriptor named Argv, as a pointer (<<>> when the command has none).
ArgvMeta(flds) ==
    LET at == {n \in DOMAIN flds : flds[n].Name = "Argv"}
    IN IF at = {} THEN <<>> ELSE <<flds[CHOOSE n \in at : \A m \in at : n <= m]>>

\* A classification that sends every argument of a switch to the filesystem.
ContextOfFlagAlwaysFile(c, a, flagPos, meta, argIndex) ==
    [c EXCEPT !.Type = "CompletionFile"]

\* The switch on fieldMeta.Type at the end of analyzeCompletionContext.
ContextOfFlag(c, a, flagPos, meta, argIndex) ==
    CASE meta.Type = "field" ->
            [c EXCEPT !.Type = IF argIndex = 0 THEN "CompletionField" ELSE "CompletionFile"]
      [] meta.Type = "string" ->
            [c EXCEPT !.Type = IF argIndex = 0 /\ Len(meta.Enum) > 0
                               THEN "CompletionEnum" ELSE "CompletionFile"]
      [] meta.Type = "multi" ->
            IF argIndex >= 0 /\ argIndex < Len(meta.Args)
            THEN [c EXCEPT !.Type = "CompletionMultiArg",
                           !.ArgumentIndex = argIndex,
                           !.ArgumentSpec = <<meta.Args[argIndex + 1]>>,
                           !.FieldName =
                               IF /\ argIndex > 0
                                  /\ meta.Args[argIndex].Type = "field"
                                  /\ flagPos + argIndex < Len(a)
                               THEN a[flagPos + argIndex + 1] ELSE ""]
            ELSE [c EXCEPT !.Type = "CompletionFile"]
      [] OTHER -> [c EXCEPT !.Type = "CompletionFile"]

\* analyzeCompletionContext(args, pos), for pos >= 0.
analyzeCompletionContext(flds, a, p) ==
    LET cur == IF p < Len(a) THEN a[p + 1] ELSE ""
        c == [CompletionContext("CompletionFile") EXCEPT !.Current = cur]
        found == [c EXCEPT !.TSVFile = findTSVFile(a)]
        last == findLastFlag(flds, a, p)
    IN IF IsPrefixed(cur) THEN [c EXCEPT !.Type = "CompletionFlag"]
       ELSE IF last.fieldMeta = <<>>
       THEN IF shouldUseBareFileCompletion(a, p)
            THEN [found EXCEPT !.FieldMeta = ArgvMeta(flds)]
            ELSE found
       ELSE ContextOfFlag([found EXCEPT !.FieldMeta = last.fieldMeta], a, last.flagPos,
                          last.fieldMeta[1], p - last.flagPos - 1)

\* A result of complete that reads no file.
Plain(io, val) == [val |-> val, err |-> NoErr, io |-> io]

\* completeMultiArgument(context)
completeMultiArgument(io, c) ==
    IF c.ArgumentSpec = <<>> THEN Plain(io, completeFiles(c.Current))
    ELSE CASE c.ArgumentSpec[1].Type = "field" ->
                 IF c.TSVFile # "" THEN completeField(io, c.TSVFile, c.Current)
                 ELSE Plain(io, <<>>)
           [] c.ArgumentSpec[1].Type = "content" ->
                 IF c.TSVFile # "" /\ c.FieldName # ""
                 THEN completeContent(io, c.TSVFile, c.FieldName, c.Current)
                 ELSE Plain(io, <<>>)
           [] c.ArgumentSpec[1].Type = "file" -> Plain(io, completeFiles(c.Current))
           [] OTHER -> Plain(io, <<>>)

\* The switch of complete on context.Type.
completeContext(flds, io, c) ==
    CASE c.Type = "CompletionFlag" -> Plain(io, completeFlags(flds, c.Current))
      [] c.Type = "CompletionField" -> completeField(io, c.TSVFile, c.Current)
      [] c.Type = "CompletionContent" ->
            completeContent(io, c.TSVFile, c.FieldName, c.Current)
      [] c.Type = "CompletionMultiArg" -> completeMultiArgument(io, c)
      [] c.Type = "CompletionEnum" -> Plain(io, completeEnum(c.FieldMeta, c.Current))
      [] OTHER -> Plain(io, completeFilesWithSuffix(c.Current, c.FieldMeta))

-----------------------------------------------------------------------------
(* The argument vectors Parse is run on                                     *)

MaxLen == 4
MaxShort == 3

\* Every switch spelling, separator and value text the parser tells apart.
Tokens == {"+", "-", "-y", "+y", "-right", "-type", "+type", "-match", "+match",
           "-argv", "-width", "+quiet", "-bogus", "cpu", "bar", "12", "data.tsv"}

\* The tokens of the clause grammar, for the longer vectors.
CoreTokens == {"+", "-", "-y", "+y", "-type", "-argv", "cpu", "bar", "data.tsv"}

SeqsUpTo(S, n) == UNION {[1..k -> S] : k \in 0..n}

\* The vectors of the documentation and the tests.
ExampleVectors == {
    <<"-y", "cpu", "+", "-y", "disk", "-right">>,
    <<"data.tsv", "-y", "cpu_usage", "+", "-y", "disk_io", "-right">>,
    <<"-match", "name", "Alice", "+", "-match", "department", "Engineering", "data.tsv">>,
    <<"data.tsv", "-type", "pie">> }

\* Vectors that repeat a list switch within a clause and across a separator,
\* and a last switch across a separator.
RepeatVectors == {
    <<"-y", "cpu", "-y", "disk", "+", "-y", "net">>,
    <<"-y", "cpu", "-y", "disk", "+", "-y", "net", "-type", "line", "-type", "area">>,
    <<"-type", "line", "-y", "cpu", "+y", "disk", "-", "-type", "area", "-y", "net">> }

\* Vectors with two bare tabular files, in one clause and in two.
BareVectors == {
    <<"data.tsv", "big.csv">>,
    <<"data.tsv", "-y", "cpu", "big.csv">>,
    <<"data.tsv", "-", "big.csv">>,
    <<"data.tsv", "-y", "cpu", "+", "BIG.CSV", "-y", "disk">>,
    <<"notes.txt", "data.tsv", "-", "-y", "cpu", "-", "big.csv">> }

ChartVectors == SeqsUpTo(CoreTokens, MaxLen) \cup SeqsUpTo(Tokens, MaxShort)
                    \cup ExampleVectors \cup RepeatVectors \cup BareVectors

\* The vectors of TestValidationIntegration.
TestVectors == {<<"-type", "bar">>, <<"-type", "invalid">>}

-----------------------------------------------------------------------------
(* Specification Spec: one call of Parse on a freshly built command         *)

ParseIdle == /\ args = <<>> /\ i = 0 /\ clauses = <<>>
             /\ current = ClauseSet(NoFields, FALSE) /\ global = NoFields
             /\ pc = "idle" /\ err = NoErr /\ roles = <<>>

\* No call of complete is in progress and none has returned.
NoCall == /\ compArgs = <<>> /\ pos = 0 /\ context = CompletionContext("CompletionFile")
          /\ completions = <<>> /\ cerr = NoErr /\ opened = <<>>

\* A command on which complete was never called.
NoComplete == /\ NoCall /\ cpc = "idle" /\ calls = 0
              /\ fieldCache = NoCache /\ contentCache = NoCache /\ lookups = <<>>

\* No call of matchesSuffixPattern is observed.
NoMatch == matchName = "" /\ matchPattern = "" /\ matched = FALSE /\ mpc = "idle"

\* Execute was never called.
NoExec == /\ xpc = "idle" /\ xerr = NoErr /\ xcalls = <<>> /\ xcollab = NoErr
          /\ xout = <<>> /\ xlog = 0

\* NewCommand has returned the command: cmd.fields is the registry of the
\* struct, and no call of NewCommand is in progress.
Built == /\ struct = <<>> /\ fidx = 0 /\ fields = FieldsOf(cfg)
         /\ tpc = "built" /\ cmd = "GSCommand" /\ terr = NoErr

Init ==
    /\ \/ cfg = "ChartConfig" /\ args \in ChartVectors
       \/ cfg = "TestCompletionConfig" /\ args \in TestVectors
    /\ i = 0
    /\ clauses = <<>>
    /\ current = ClauseSet(NoFields, FALSE)
    /\ global = NoFields
    /\ config = ZeroConfig(StructOf(cfg))
    /\ pc = "scan"
    /\ err = NoErr
    /\ roles = <<>>
    /\ Built
    /\ NoComplete
    /\ NoMatch
    /\ NoExec

\* A loop step that copies the global values parsed so far into the
\* configuration struct.
StepWritingConfig(s) ==
    /\ i' = s.i
    /\ clauses' = s.clauses
    /\ current' = s.current
    /\ global' = s.global
    /\ roles' = s.roles
    /\ pc' = s.pc
    /\ err' = s.err
    /\ config' = applyGlobalToConfig(config, s.global)
    /\ UNCHANGED <<cfg, args>>
    /\ UNCHANGED <<tagVars, compVars, matchVars, execVars>>

Step(s) ==
    /\ i' = s.i
    /\ clauses' = s.clauses
    /\ current' = s.current
    /\ global' = s.global
    /\ roles' = s.roles
    /\ pc' = s.pc
    /\ err' = s.err
    /\ UNCHANGED <<cfg, args, config>>
    /\ UNCHANGED <<tagVars, compVars, matchVars, execVars>>

Scanning == pc = "scan" /\ i < Len(args)

NegatedClause ==
    /\ Scanning
    /\ args[i + 1] = "+"
    /\ Step(NewClause(Scan, TRUE))

PositiveClause ==
    /\ Scanning
    /\ args[i + 1] = "-"
    /\ Step(NewClause(Scan, FALSE))

NegatedSwitch ==
    /\ Scanning
    /\ args[i + 1] \notin {"+", "-"}
    /\ HasPrefix(args[i + 1], "+")
    /\ Step(ParseSwitch(fields, args, Scan, TRUE))

PositiveSwitch ==
    /\ Scanning
    /\ args[i + 1] \notin {"+", "-"}
    /\ ~HasPrefix(args[i + 1], "+")
    /\ HasPrefix(args[i + 1], "-")
    /\ Step(ParseSwitch(fields, args, Scan, FALSE))

Positional ==
    /\ Scanning
    /\ ~HasPrefix(args[i + 1], "+")
    /\ ~HasPrefix(args[i + 1], "-")
    /\ Step(PositionalArg(args, Scan))

Return ==
    /\ pc = "scan"
    /\ i >= Len(args)
    /\ LET r == ParseReturn(fields, Scan, config)
       IN /\ clauses' = r.clauses
          /\ global' = r.global
          /\ config' = r.config
    /\ pc' = "done"
    /\ UNCHANGED <<cfg, args, i, current, err, roles>>
    /\ UNCHANGED <<tagVars, compVars, matchVars, execVars>>

Next == NegatedClause \/ PositiveClause \/ NegatedSwitch \/ PositiveSwitch
            \/ Positional \/ Return

Spec == Init /\ [][Next]_vars

MaxPair == 2

\* Vectors with a token of every role, the value of a switch being a
\* separator token or a switch name, and vectors that fail at their end.
RoleVectors == {
    <<"-y", "-", "+", "cpu">>,
    <<"-match", "-y", "+type", "data.tsv", "-", "cpu">>,
    <<"data.tsv", "-y", "cpu", "-width", "wide">>,
    <<"data.tsv", "-y", "cpu", "+", "-match", "name">> }

\* The vectors on which termination is checked: every pair of tokens and
\* the longer vectors of the documentation and the tests.
TerminatingVectors == SeqsUpTo(Tokens, MaxPair) \cup ExampleVectors \cup RepeatVectors
                          \cup BareVectors \cup RoleVectors

\* A built command on which Parse has not been called yet.
InitTerminating ==
    /\ cfg \in {"ChartConfig", "TestCompletionConfig"}
    /\ config = ZeroConfig(StructOf(cfg))
    /\ ParseIdle
    /\ Built
    /\ NoComplete
    /\ NoMatch
    /\ NoExec

\* The caller calls cmd.Parse(args): the locals of lines 382-388 are set and
\* the loop is entered.
ParseCall ==
    /\ pc = "idle"
    /\ \/ cfg = "ChartConfig" /\ args' \in TerminatingVectors
       \/ cfg = "TestCompletionConfig" /\ args' \in TestVectors
    /\ pc' = "scan"
    /\ UNCHANGED <<cfg, i, clauses, current, global, config, err, roles>>
    /\ UNCHANGED <<tagVars, compVars, matchVars, execVars>>

NextTerminating == ParseCall \/ Next

\* Parse is a sequential loop: a call that can take a step takes it.
SpecTerminating == InitTerminating /\ [][NextTerminating]_vars /\ WF_vars(NextTerminating)

-----------------------------------------------------------------------------
(* Specification SpecTag: one call of NewCommand on a configuration struct  *)

MaxParts == 3
MaxFields == 2

\* Tokens of the descriptor grammar: kinds, scopes, modes, key=value pairs,
\* an empty token, a padded one, an unknown word and an unknown key.
TagParts == {"", "string", "multi", "global", " local", "list", "bogus",
             "help=h", "default=1", "enum=a:b", "color=red"}

\* Descriptor strings with lists: an enum and an argument list written with
\* ":" and with ",", and a suffix with a brace group.
ListTags == {"string,global,last,enum=bar:line:area",
             "string,global,last,enum=bar,line,area",
             "multi,local,list,args=field:content",
             "multi,local,list,args=field,content",
             "file,global,last,suffix=.{tsv,csv}"}

TagStrings == {Join(ps, ",") : ps \in SeqsUpTo(TagParts, MaxParts)} \cup ListTags

\* ChartConfig's first fields with one more field, F, tagged t, put at
\* position k + 1.
StructWith(t, k) ==
    SubSeq(ChartConfig, 1, k) \o <<Field("F", "string", t)>>
        \o SubSeq(ChartConfig, k + 1, MaxFields - 1)

NoParse == cfg = "" /\ config = NoFields /\ ParseIdle

InitTag ==
    /\ \E t \in TagStrings, k \in 0..(MaxFields - 1) : struct = StructWith(t, k)
    /\ fidx = 0
    /\ fields = <<>>
    /\ tpc = "reflect"
    /\ cmd = "nil"
    /\ terr = NoErr
    /\ NoParse
    /\ NoComplete
    /\ NoMatch
    /\ NoExec

Reflecting == tpc = "reflect" /\ fidx < Len(struct)

\* tag == "": the field is skipped.
SkipField ==
    /\ Reflecting
    /\ struct[fidx + 1].tag = ""
    /\ fidx' = fidx + 1
    /\ UNCHANGED <<struct, fields, tpc, cmd, terr>>
    /\ UNCHANGED <<parseVars, compVars, matchVars, execVars>>

\* parseFieldTag succeeds: the descriptor is appended.
ReflectOk ==
    /\ Reflecting
    /\ struct[fidx + 1].tag # ""
    /\ LET r == ReflectField(struct[fidx + 1], [fields |-> fields, err |-> NoErr])
       IN /\ r.err = NoErr
          /\ fields' = r.fields
    /\ fidx' = fidx + 1
    /\ UNCHANGED <<struct, tpc, cmd, terr>>
    /\ UNCHANGED <<parseVars, compVars, matchVars, execVars>>

\* parseFieldTag fails: reflectFields returns nil and the error, and
\* NewCommand returns nil and the error.
ReflectFail ==
    /\ Reflecting
    /\ struct[fidx + 1].tag # ""
    /\ LET r == ReflectField(struct[fidx + 1], [fields |-> fields, err |-> NoErr])
       IN /\ r.err # NoErr
          /\ fields' = r.fields
          /\ terr' = Errorf("reflecting fields: " \o ErrText(r.err))
    /\ tpc' = "failed"
    /\ cmd' = "nil"
    /\ UNCHANGED <<struct, fidx>>
    /\ UNCHANGED <<parseVars, compVars, matchVars, execVars>>

\* The loop is over: NewCommand returns the command.
CommandBuilt ==
    /\ tpc = "reflect"
    /\ fidx >= Len(struct)
    /\ tpc' = "built"
    /\ cmd' = "GSCommand"
    /\ UNCHANGED <<struct, fidx, fields, terr>>
    /\ UNCHANGED <<parseVars, compVars, matchVars, execVars>>

NextTag == SkipField \/ ReflectOk \/ ReflectFail \/ CommandBuilt

SpecTag == InitTag /\ [][NextTag]_vars

-----------------------------------------------------------------------------
(* Specification SpecComplete: calls of complete on one command             *)

MaxCompLen == 2
MaxPos == 5
MaxCalls == 2

\* Switches of every kind, an unknown switch, the separators, partial words
\* and files that exist and do not.
CompTokens == {"-y", "+match", "-type", "-argv", "-title", "-width", "-bogus", "+", "-", "",
               "na", "D", "data.tsv", "missing.tsv"}

\* Vectors that complete the second argument of -match on every file, a
\* field of a file without lines, a path inside a directory and hidden
\* entries.
ContentVectors == {
    <<"data.tsv", "-match", "name", "a">>,
    <<"data.tsv", "-match", "name", "">>,
    <<"data.tsv", "-match", "bogus", "">>,
    <<"data.csv", "-match", "name", "">>,
    <<"data.csv", "-match", "dept", "">>,
    <<"big.tsv", "-match", "name", "">>,
    <<"missing.tsv", "-match", "name", "">>,
    <<"empty.tsv", "-y", "">>,
    <<"-argv", "docs/d">>,
    <<"-argv", "nodir/x">>,
    <<"-argv", ".">>,
    <<"-argv", "docs/">>,
    <<".E">>,
    <<"data.tsv", "-y">> }

ChartCompVectors == SeqsUpTo(CompTokens, MaxCompLen) \cup ContentVectors

\* The vectors of TestEnumCompletion, TestFlagCompletion and
\* TestPositionHandling, and two with a capital partial word.
TestCompVectors == {<<"-type", "">>, <<"-type", "l">>, <<"-type", "b">>, <<"-type">>,
                    <<"-">>, <<"-t">>, <<"+t">>, <<"+T">>, <<"-type", "L">>}

Positions == (-1)..MaxPos

InitComplete ==
    /\ cfg \in {"ChartConfig", "TestCompletionConfig"}
    /\ config = ZeroConfig(StructOf(cfg))
    /\ ParseIdle
    /\ Built
    /\ NoComplete
    /\ NoMatch
    /\ NoExec

\* handleCompletion or a test calls cmd.complete(compArgs, pos).
Call ==
    /\ cpc = "idle"
    /\ calls < MaxCalls
    /\ \E a \in IF cfg = "ChartConfig" THEN ChartCompVectors ELSE TestCompVectors,
          p \in Positions :
          /\ compArgs' = a
          /\ pos' = p
    /\ cpc' = "called"
    /\ calls' = calls + 1
    /\ UNCHANGED <<context, completions, cerr, opened, fieldCache, contentCache,
                   lookups>>
    /\ UNCHANGED <<parseVars, tagVars, matchVars, execVars>>

\* args[pos] with a negative pos: the runtime panics with "index out of
\* range" in analyzeCompletionContext.
CompletePanics ==
    /\ cpc = "called"
    /\ pos < 0
    /\ cpc' = "panicked"
    /\ UNCHANGED <<compArgs, pos, calls, context, completions, cerr, opened, fieldCache,
                   contentCache, lookups>>
    /\ UNCHANGED <<parseVars, tagVars, matchVars, execVars>>

\* complete(compArgs, pos), first statement: analyzeCompletionContext.
Analyze ==
    /\ cpc = "called"
    /\ pos >= 0
    /\ context' = analyzeCompletionContext(fields, compArgs, pos)
    /\ cpc' = "analyzed"
    /\ UNCHANGED <<compArgs, pos, calls, completions, cerr, opened, fieldCache,
                   contentCache, lookups>>
    /\ UNCHANGED <<parseVars, tagVars, matchVars, execVars>>

\* complete returns r: the candidates, the error and the caches it leaves.
Returns(r) ==
    /\ completions' = r.val
    /\ cerr' = r.err
    /\ opened' = r.io.opened
    /\ fieldCache' = r.io.fieldCache
    /\ contentCache' = r.io.contentCache
    /\ lookups' = r.io.lookups
    /\ cpc' = "returned"
    /\ UNCHANGED <<compArgs, pos, calls, context>>
    /\ UNCHANGED <<parseVars, tagVars, matchVars, execVars>>

\* The cases of the switch on context.Type in complete.
CompleteFlag ==
    /\ cpc = "analyzed"
    /\ context.Type = "CompletionFlag"
    /\ \E r \in {Plain(Caches, completeFlags(fields, context.Current))} : Returns(r)

CompleteFieldNames ==
    /\ cpc = "analyzed"
    /\ context.Type = "CompletionField"
    /\ \E r \in {completeField(Caches, context.TSVFile, context.Current)} : Returns(r)

CompleteMultiArg ==
    /\ cpc = "analyzed"
    /\ context.Type = "CompletionMultiArg"
    /\ \E r \in {completeMultiArgument(Caches, context)} : Returns(r)

CompleteEnumValues ==
    /\ cpc = "analyzed"
    /\ context.Type = "CompletionEnum"
    /\ \E r \in {Plain(Caches, completeEnum(context.FieldMeta, context.Current))} :
          Returns(r)

CompleteFile ==
    /\ cpc = "analyzed"
    /\ context.Type = "CompletionFile"
    /\ \E r \in {Plain(Caches, completeFilesWithSuffix(context.Current,
                                                         context.FieldMeta))} :
          Returns(r)

\* The caller has taken the result: handleCompletion prints the candidates
\* or returns the error, and the command with its caches lives on.
Taken ==
    /\ cpc = "returned"
    /\ cpc' = "idle"
    /\ compArgs' = <<>>
    /\ pos' = 0
    /\ context' = CompletionContext("CompletionFile")
    /\ completions' = <<>>
    /\ cerr' = NoErr
    /\ opened' = <<>>
    /\ UNCHANGED <<calls, fieldCache, contentCache, lookups>>
    /\ UNCHANGED <<parseVars, tagVars, matchVars, execVars>>

NextComplete == Call \/ CompletePanics \/ Analyze \/ CompleteFlag
                    \/ CompleteFieldNames \/ CompleteMultiArg \/ CompleteEnumValues
                    \/ CompleteFile \/ Taken

SpecComplete == InitComplete /\ [][NextComplete]_vars

-----------------------------------------------------------------------------
(* matchesSuffixPattern on file names and patterns                         *)

\* File names in both cases, with one, two and no extension.
MatchNames == {"data.tsv", "DATA.CSV", "data.csv", "Data.Tsv", "data.json", "x.yaml",
               "notes.txt", "data.tsv.bak", "tsv", ".tsv", "a.zsv", ""}

\* Literal suffixes, brace patterns (with blanks, with text after the
\* braces, with the braces exchanged), character classes, wildcards and a
\* class that is not closed.
MatchPatterns == {".tsv", ".TSV", "", "sv", ".{tsv,csv}", ".{TSV,CSV}", ".{ tsv , csv }",
                  ".{json,yaml}", ".{tsv,csv}.bak", "}{", ".[tc]sv", ".[TC]SV",
                  ".[a-s]sv", ".[^t]sv", ".?sv", ".*", ".[tsv"}

\* No command is built.
NoCommand == /\ struct = <<>> /\ fidx = 0 /\ fields = <<>>
             /\ tpc = "reflect" /\ cmd = "nil" /\ terr = NoErr

InitMatch ==
    /\ matchName \in MatchNames
    /\ matchPattern \in MatchPatterns
    /\ matched = FALSE
    /\ mpc = "called"
    /\ NoParse
    /\ NoCommand
    /\ NoComplete
    /\ NoExec

\* matchesSuffixPattern returns what it decides.
MatchReturns ==
    /\ matched' = matchesSuffixPattern(matchName, matchPattern)
    /\ mpc' = "returned"
    /\ UNCHANGED <<matchName, matchPattern>>
    /\ UNCHANGED <<parseVars, tagVars, compVars, execVars>>

\* The pattern has both braces: matchesBracePattern decides.
MatchBrace ==
    /\ mpc = "called"
    /\ Contains(ToLower(matchPattern), "{") /\ Contains(ToLower(matchPattern), "}")
    /\ MatchReturns

\* The pattern has a glob character and not both braces: filepath.Match
\* decides, or the suffix when the pattern is malformed.
MatchGlob ==
    /\ mpc = "called"
    /\ ~(Contains(ToLower(matchPattern), "{") /\ Contains(ToLower(matchPattern), "}"))
    /\ ContainsAny(ToLower(matchPattern), {"*", "?", "[", "]"})
    /\ MatchReturns

\* Any other pattern: strings.HasSuffix decides.
MatchLiteral ==
    /\ mpc = "called"
    /\ ~(Contains(ToLower(matchPattern), "{") /\ Contains(ToLower(matchPattern), "}"))
    /\ ~ContainsAny(ToLower(matchPattern), {"*", "?", "[", "]"})
    /\ MatchReturns

NextMatch == MatchBrace \/ MatchGlob \/ MatchLiteral

SpecMatch == InitMatch /\ [][NextMatch]_vars

-----------------------------------------------------------------------------
(* GSCommand.Execute and the Commander it runs                             *)

\* parseTSV's separator: the first character of the first line that is
\* not a letter, a digit or "_"; a tab when there is none.
RECURSIVE ChartSeparator(_)
ChartSeparator(line) ==
    IF line = "" THEN Tab
    ELSE IF IsAlnum(Char(line, 1)) \/ Char(line, 1) = "_"
    THEN ChartSeparator(SubSeq(line, 2, Len(line)))
    ELSE Char(line, 1)

\* ChartConfig.getInputFile(clauses): cfg.Argv, else the first tabular
\* positional argument of the clauses from index j on, else "-" for
\* standard input.
RECURSIVE FirstTabular(_, _)
FirstTabular(cs, j) ==
    IF j > Len(cs) THEN "-"
    ELSE LET tabular == Filter(getStringSlice(cs[j].Fields, "_args"), IsTabularFile)
         IN IF tabular # <<>> THEN tabular[1] ELSE FirstTabular(cs, j + 1)
getInputFile(conf, cs) ==
    IF conf["Argv"].v # "" THEN conf["Argv"].v ELSE FirstTabular(cs, 1)

\* ChartConfig.Execute(ctx, clauses) with the lines standard input holds:
\* the returned error and the number of progress messages logged before it.
ChartExecute(conf, cs, stdin) ==
    LET inputFile == getInputFile(conf, cs)
        lines == IF inputFile = "-" THEN stdin ELSE Files[inputFile]
        headers == TrimAll(Split(lines[1], ChartSeparator(lines[1])))
    IN IF inputFile # "-" /\ inputFile \notin DOMAIN Files
       THEN [err |-> Errorf("parsing TSV file: " \o ErrText(OpenError(inputFile))),
             logged |-> 0]
       ELSE IF lines = <<>>
       THEN [err |-> Errorf("parsing TSV file: no data in input"), logged |-> 0]
       ELSE IF conf["X"].v = ""
       THEN [err |-> Errorf("X axis field must be specified with -x"), logged |-> 0]
       ELSE IF ~\E n \in DOMAIN headers : headers[n] = conf["X"].v
       THEN [err |-> Errorf("X field '" \o conf["X"].v \o "' not found in data"),
             logged |-> 0]
       ELSE [err |-> NoErr, logged |-> IF conf["Quiet"].v THEN 0 ELSE Len(cs)]

\* What standard input may hold when the chart command reads it.
Stdin == {<<>>, <<"name" \o Tab \o "dept", "bob" \o Tab \o "Ops">>}

\* The errors a Commander outside this repository may return from
\* Validate and from Execute.
CommanderErrors == {NoErr, Errorf("quota exceeded")}

\* commander.Validate() of the configuration c: the repository's two
\* structs, and "Commander" for any other implementation of the interface
\* (declared with the fields of TestCompletionConfig).
ValidateResults(c, conf) ==
    IF c = "Commander" THEN CommanderErrors ELSE {Validate(c, conf)}

\* commander.Execute(ctx, clauses): the returned error and the messages
\* logged.
ExecuteResults(c, conf, cs) ==
    CASE c = "ChartConfig" -> {ChartExecute(conf, cs, stdin) : stdin \in Stdin}
      [] c = "Commander" -> {[err |-> e, logged |-> 0] : e \in CommanderErrors}
      [] OTHER -> {[err |-> NoErr, logged |-> 0]}

\* strconv.Atoi on the texts of the model: an optional sign and digits.
Atoi(s) == ParseFloat(s)

MaxExecLen == 3

\* Tokens of the chart command and of the test command for Execute.
ExecTokens == {"big.tsv", "data.tsv", "missing.tsv", "-x", "name", "-y", "+quiet", "+",
               "-", "-type", "pie", "-bogus"}

\* The vectors of the built-in commands.
BuiltinVectors == {
    <<"-help">>, <<"--help">>, <<"-man">>, <<"-bash-completion">>,
    <<"-complete">>, <<"-complete", "1">>, <<"-complete", "x", "-y">>,
    <<"-complete", "1", "data.tsv", "-y">>,
    <<"-complete", "2", "data.tsv", "-y">>,
    <<"-complete", "2", "data.tsv", "-type">>,
    <<"-complete", "1", "-y">>,
    <<"-complete", "-1", "-type">> }

\* The documented chart vectors that name their input twice or silence it.
ChartExecVectors == {
    <<"big.tsv", "-x", "name", "-y", "dept">>,
    <<"big.tsv", "-x", "name", "-y", "dept", "+quiet">>,
    <<"big.tsv", "-x", "name", "-y", "dept", "-quiet">>,
    <<"big.tsv", "-x", "name", "-y", "dept", "+", "-y", "name", "+quiet">>,
    <<"-x", "name", "-y", "dept">> }

ExecVectors(c) ==
    BuiltinVectors \cup
        (IF c = "ChartConfig"
         THEN SeqsUpTo(ExecTokens, MaxExecLen) \cup ChartExecVectors
         ELSE TestVectors)

InitExecute ==
    /\ cfg \in {"ChartConfig", "TestCompletionConfig", "Commander"}
    /\ config = ZeroConfig(StructOf(cfg))
    /\ ParseIdle
    /\ Built
    /\ NoComplete
    /\ NoMatch
    /\ NoExec

\* main or a test calls cmd.Execute(ctx, args).
XCall ==
    /\ xpc = "idle"
    /\ args = <<>>
    /\ \E a \in ExecVectors(cfg) : args' = a /\ a # <<>>
    /\ xpc' = "called"
    /\ UNCHANGED <<cfg, i, clauses, current, global, config, pc, err, roles>>
    /\ UNCHANGED <<xerr, xcalls, xcollab, xout, xlog>>
    /\ UNCHANGED <<tagVars, compVars, matchVars>>

\* -help, --help, -man and -bash-completion print a generated text and
\* return nil.
XBuiltin ==
    /\ xpc = "called"
    /\ args[1] \in {"-help", "--help", "-man", "-bash-completion"}
    /\ xpc' = "returned"
    /\ xerr' = NoErr
    /\ UNCHANGED <<xcalls, xcollab, xout, xlog>>
    /\ UNCHANGED <<parseVars, tagVars, compVars, matchVars>>

\* handleCompletion(args) with too few arguments or a position that is
\* not a number.
XCompleteRejected ==
    /\ xpc = "called"
    /\ args[1] = "-complete"
    /\ IF Len(args) < 3 THEN TRUE ELSE Atoi(args[2]).err # NoErr
    /\ xpc' = "returned"
    /\ xerr' = IF Len(args) < 3 THEN Errorf("completion requires position and arguments")
               ELSE Errorf("invalid completion position: " \o args[2])
    /\ UNCHANGED <<xcalls, xcollab, xout, xlog>>
    /\ UNCHANGED <<parseVars, tagVars, compVars, matchVars>>

\* handleCompletion(args) with a negative position: complete panics.
XCompletePanics ==
    /\ xpc = "called"
    /\ args[1] = "-complete"
    /\ Len(args) >= 3
    /\ Atoi(args[2]).err = NoErr
    /\ Atoi(args[2]).val < 0
    /\ xpc' = "panicked"
    /\ compArgs' = SubSeq(args, 3, Len(args))
    /\ pos' = Atoi(args[2]).val
    /\ cpc' = "panicked"
    /\ calls' = calls + 1
    /\ UNCHANGED <<context, completions, cerr, opened, fieldCache, contentCache, lookups>>
    /\ UNCHANGED <<xerr, xcalls, xcollab, xout, xlog>>
    /\ UNCHANGED <<parseVars, tagVars, matchVars>>

\* handleCompletion(args): complete(args[2:], pos), then one printed line
\* for every candidate, or the error of complete.
XComplete ==
    /\ xpc = "called"
    /\ args[1] = "-complete"
    /\ Len(args) >= 3
    /\ Atoi(args[2]).err = NoErr
    /\ Atoi(args[2]).val >= 0
    /\ \E c \in {analyzeCompletionContext(fields, SubSeq(args, 3, Len(args)),
                                          Atoi(args[2]).val)} :
          \E r \in {completeContext(fields, Caches, c)} :
              /\ context' = c
              /\ completions' = r.val
              /\ cerr' = r.err
              /\ opened' = r.io.opened
              /\ fieldCache' = r.io.fieldCache
              /\ contentCache' = r.io.contentCache
              /\ lookups' = r.io.lookups
              /\ xerr' = r.err
              /\ xout' = IF r.err = NoErr THEN r.val ELSE <<>>
    /\ compArgs' = SubSeq(args, 3, Len(args))
    /\ pos' = Atoi(args[2]).val
    /\ cpc' = "returned"
    /\ calls' = calls + 1
    /\ xpc' = "returned"
    /\ UNCHANGED <<xcalls, xcollab, xlog>>
    /\ UNCHANGED <<parseVars, tagVars, matchVars>>

IsBuiltin(a) ==
    a[1] \in {"-help", "--help", "-man", "-complete", "-bash-completion"}

\* clauses, err := cmd.Parse(args): Parse starts on the vector and runs by
\* the steps of Next.
XParse ==
    /\ xpc = "called"
    /\ ~IsBuiltin(args)
    /\ pc' = "scan"
    /\ xpc' = "parsing"
    /\ xcalls' = Append(xcalls, "Parse")
    /\ UNCHANGED <<cfg, args, i, clauses, current, global, config, err, roles>>
    /\ UNCHANGED <<xerr, xcollab, xout, xlog>>
    /\ UNCHANGED <<tagVars, compVars, matchVars>>

\* An Execute that goes on to the Commander whatever Parse returned.
XParsedIgnoringError ==
    /\ xpc = "parsing"
    /\ pc \in {"done", "failed"}
    /\ xpc' = "parsed"
    /\ xerr' = NoErr
    /\ UNCHANGED <<xcalls, xcollab, xout, xlog>>
    /\ UNCHANGED <<parseVars, tagVars, compVars, matchVars>>

\* Parse has returned: its error is returned wrapped, its clauses go on to
\* the Commander.
XParsed ==
    /\ xpc = "parsing"
    /\ pc \in {"done", "failed"}
    /\ xpc' = IF pc = "done" THEN "parsed" ELSE "returned"
    /\ xerr' = IF pc = "done" THEN NoErr
               ELSE Errorf("parsing arguments: " \o ErrText(err))
    /\ UNCHANGED <<xcalls, xcollab, xout, xlog>>
    /\ UNCHANGED <<parseVars, tagVars, compVars, matchVars>>

\* commander.Validate(); its error is returned wrapped.
XValidate ==
    /\ xpc = "parsed"
    /\ \E e \in ValidateResults(cfg, config) :
          /\ xcollab' = e
          /\ xpc' = IF e = NoErr THEN "validated" ELSE "returned"
          /\ xerr' = IF e = NoErr THEN NoErr
                     ELSE Errorf("validation failed: " \o ErrText(e))
    /\ xcalls' = Append(xcalls, "Validate")
    /\ UNCHANGED <<xout, xlog>>
    /\ UNCHANGED <<parseVars, tagVars, compVars, matchVars>>

\* return commander.Execute(ctx, clauses)
XExecute ==
    /\ xpc = "validated"
    /\ \E r \in ExecuteResults(cfg, config, clauses) :
          /\ xcollab' = r.err
          /\ xerr' = r.err
          /\ xlog' = r.logged
    /\ xcalls' = Append(xcalls, "Execute")
    /\ xpc' = "returned"
    /\ UNCHANGED xout
    /\ UNCHANGED <<parseVars, tagVars, compVars, matchVars>>

NextExecute == XCall \/ XBuiltin \/ XCompleteRejected \/ XCompletePanics \/ XComplete
                  \/ XParse \/ Next \/ XParsed \/ XValidate \/ XExecute

SpecExecute == InitExecute /\ [][NextExecute]_vars

-----------------------------------------------------------------------------
(* Properties of Parse (specification Spec)                                 *)

Returned == pc = "done"
Failed == pc = "failed"

\* The positions of the tokens Parse took as clause separators, and the
\* j-th of them in vector order.
SeparatorsAt == {k \in DOMAIN roles : roles[k] = "separator"}
Separator(j) == CHOOSE k \in SeparatorsAt : Cardinality({m \in SeparatorsAt : m < k}) = j - 1

\* The clause a token at position k belongs to: one more than the number
\* of separators before it.
ClauseOf(k) == 1 + Cardinality({m \in SeparatorsAt : m < k})

DocVector == <<"-y", "cpu", "+", "-y", "disk", "-right">>

TypeSwitches == {"-type", "+type"}
TypeEnum == {"bar", "line", "area"}

C3_EnumRejectedOnlyByValidate ==
    (cfg = "TestCompletionConfig" /\ args = <<"-type", "invalid">> /\ (Returned \/ Failed)) =>
        /\ Returned
        /\ err = NoErr
        /\ Len(clauses) >= 1
        /\ Validate(cfg, ApplyClausesToConfig(config, clauses, 1))
              = Errorf("invalid type: invalid")

SeparatorTokens == {"+", "-"}

\* The positional tokens of clause j, in vector order.
PositionalsOf(j) ==
    LET at == InOrder({k \in DOMAIN roles : roles[k] = "positional" /\ ClauseOf(k) = j})
    IN [n \in DOMAIN at |-> args[at[n]]]

\* C4 (as claimed): an accepted vector yields one more clause than it has
\* tokens that are exactly + or -.
C4_OneMoreThanSeparatorTokens ==
    Returned =>
        Len(clauses) = Cardinality({k \in DOMAIN args : args[k] \in SeparatorTokens}) + 1

\* C4 (amended): an accepted vector yields one more clause than it has
\* tokens + or - that are not consumed as the value of a preceding switch;
\* the clauses are in separator order (clause j holds the positional
\* tokens between separators j-1 and j, and is negated as separator j-1
\* says); the trailing clause is appended even when it is empty.
C4_OneMoreThanScannedSeparators ==
    Returned =>
        /\ SeparatorsAt = {k \in DOMAIN args :
                              args[k] \in SeparatorTokens /\ roles[k] # "value"}
        /\ Len(clauses) = Cardinality(SeparatorsAt) + 1
        /\ \A j \in DOMAIN clauses :
              /\ getStringSlice(clauses[j].Fields, "_args") = PositionalsOf(j)
              /\ j >= 2 => clauses[j].IsNegated = (args[Separator(j - 1)] = "+")

C4_Witness ==
    /\ Returned
    /\ \E k \in DOMAIN roles : roles[k] = "value" /\ args[k] \in SeparatorTokens
    /\ Len(args) > 0
    /\ roles[Len(args)] = "separator"
    /\ Len(clauses) = 2

\* The descriptor of a switch token spelled -name or +name (0 when the
\* registry has none), and the number of arguments its kind requires.
SwitchName(tok) == "-" \o SubSeq(tok, 2, Len(tok))
KnownSwitch(tok) ==
    /\ Len(tok) > 1
    /\ HasPrefix(tok, "-") \/ HasPrefix(tok, "+")
    /\ FindField(fields, SwitchName(tok)) # 0
MetaOf(tok) == fields[FindField(fields, SwitchName(tok))]
Required(meta) ==
    CASE meta.Type = "flag" -> 0
      [] meta.Type = "multi" -> Len(meta.Args)
      [] OTHER -> 1

\* The words by which the "too few arguments" errors state the count.
NamesCount(msg, n) ==
    \/ n = 1 /\ Contains(msg, "requires a value")
    \/ Contains(msg, "requires " \o ToString(n) \o " arguments")

\* C5: a consumed switch is followed by exactly the value tokens its kind
\* requires (flag 0, string/field/file/number 1, multi the number of its
\* ArgumentSpecs); when fewer tokens remain, Parse fails with an error
\* naming the switch and the count and returns no clauses.
C5_SwitchArity ==
    /\ Len(roles) <= Len(args)
    /\ \A k \in DOMAIN roles :
          roles[k] = "switch" =>
              LET n == Required(MetaOf(args[k]))
              IN /\ k + n <= Len(roles)
                 /\ \A m \in (k + 1)..(k + n) : roles[m] = "value"
                 /\ (k + n + 1) \in DOMAIN roles => roles[k + n + 1] # "value"
    /\ (/\ pc \in {"done", "failed"}
        /\ i < Len(args)
        /\ KnownSwitch(args[i + 1])
        /\ Len(args) - (i + 1) < Required(MetaOf(args[i + 1]))) =>
          /\ Failed
          /\ clauses = <<>>
          /\ Contains(ErrText(err), "flag " \o SwitchName(args[i + 1]) \o " ")
          /\ NamesCount(ErrText(err), Required(MetaOf(args[i + 1])))

C5_Witness ==
    /\ Failed
    /\ i > 0
    /\ Len(args) = i + 2
    /\ args[i + 1] = "-match"
    /\ \E k \in DOMAIN roles : roles[k] = "switch"

\* The other spelling of a switch token, and the vector with the switch at k
\* spelled the other way.
Flip(tok) == (IF HasPrefix(tok, "+") THEN "-" ELSE "+") \o SubSeq(tok, 2, Len(tok))
FlipAt(a, k) == [a EXCEPT ![k] = Flip(a[k])]

ClauseOfIn(r, k) == 1 + Cardinality({m \in DOMAIN r : r[m] = "separator" /\ m < k})

\* A value carrying the negation mark, and the value without it.
IsMarked(val) == val.t = "map[string]interface{}" /\ "_negated" \in DOMAIN val.v
Unmark(meta, val) ==
    IF ~IsMarked(val) THEN val
    ELSE IF meta.Type = "multi"
    THEN Map([x \in DOMAIN val.v \ {"_negated"} |-> val.v[x]])
    ELSE val.v["value"]
UnmarkField(meta, val) ==
    IF meta.Mode = "list" /\ val.t = "[]interface{}"
    THEN List([n \in DOMAIN val.v |-> Unmark(meta, val.v[n])])
    ELSE Unmark(meta, val)
Declared(name) == \E n \in DOMAIN fields : fields[n].Name = name
MetaByName(name) == fields[CHOOSE n \in DOMAIN fields : fields[n].Name = name]
UnmarkClauses(cs) ==
    [j \in DOMAIN cs |->
        [cs[j] EXCEPT !.Fields =
            [f \in DOMAIN @ |-> IF Declared(f) THEN UnmarkField(MetaByName(f), @[f])
                                ELSE @[f]]]]

\* The switch occurrences of vector a (roles r) that write where the
\* occurrence at k writes, and the clauses of cs that show what it wrote:
\* its own clause for a local field, for a global field every clause that
\* did not adopt a bare file of its own.
SamePlace(a, r, k) ==
    {m \in DOMAIN r :
        /\ r[m] = "switch"
        /\ MetaOf(a[m]).Name = MetaOf(a[k]).Name
        /\ MetaOf(a[k]).Scope = "local" => ClauseOfIn(r, m) = ClauseOfIn(r, k)}
ShownIn(a, r, cs, k) ==
    IF MetaOf(a[k]).Scope = "local" THEN {ClauseOfIn(r, k)}
    ELSE {c \in DOMAIN cs :
             ~\E q \in DOMAIN r : /\ r[q] = "positional"
                                  /\ ClauseOfIn(r, q) = c
                                  /\ IsTabularFile(a[q])}

\* In the clauses cs of vector a, the value of every switch occurrence
\* carries the mark exactly when the occurrence is spelled with +, and a
\* flag is plain true under both spellings.
MarksFollowSpelling(a, r, cs) ==
    \A k \in DOMAIN r :
        r[k] = "switch" =>
            LET meta == MetaOf(a[k])
                nth == Cardinality({m \in SamePlace(a, r, k) : m <= k})
                isLast == \A m \in SamePlace(a, r, k) : m <= k
            IN \A c \in ShownIn(a, r, cs, k) :
                  /\ meta.Name \in DOMAIN cs[c].Fields
                  /\ CASE meta.Type = "flag" -> cs[c].Fields[meta.Name] = Bool(TRUE)
                       [] meta.Type # "flag" /\ meta.Mode = "list" ->
                             /\ cs[c].Fields[meta.Name].t = "[]interface{}"
                             /\ nth <= Len(cs[c].Fields[meta.Name].v)
                             /\ IsMarked(cs[c].Fields[meta.Name].v[nth])
                                    <=> HasPrefix(a[k], "+")
                       [] OTHER ->
                             isLast => (IsMarked(cs[c].Fields[meta.Name])
                                            <=> HasPrefix(a[k], "+"))

\* The positions at which Parse took a declared switch: the consumed ones
\* and, after a failure, the one that failed.
SwitchOccurrences ==
    {k \in DOMAIN roles : roles[k] = "switch"}
        \cup (IF Failed /\ i < Len(args) /\ KnownSwitch(args[i + 1]) THEN {i + 1} ELSE {})

GlobalSwitchStep ==
    /\ pc = "scan" /\ pc' = "scan"
    /\ Len(roles') > Len(roles)
    /\ roles'[Len(roles) + 1] = "switch"
    /\ MetaOf(args[i + 1]).Scope = "global"

\* The step on which Parse returns its clauses.
ReturnStep == pc = "scan" /\ pc' = "done"

\* What a returned clause must hold for the declared field meta, given the
\* clause's own fields before the merge and the shared accumulator.
Resolved(meta, own, after) ==
    IF meta.Name \in DOMAIN own THEN after[meta.Name] = own[meta.Name]
    ELSE IF meta.Name \in DOMAIN global THEN after[meta.Name] = global[meta.Name]
    ELSE IF meta.DefaultValue # Nil THEN after[meta.Name] = meta.DefaultValue
    ELSE meta.Name \notin DOMAIN after

\* C7: a global-scope switch writes the shared accumulator and leaves the
\* clause being scanned untouched; on return every clause holds, for every
\* declared field, its own value if it defines one, else the accumulator's
\* value whichever clause the switch stood in, else the declared default,
\* else nothing.
C7_ScopeResolution ==
    [][/\ GlobalSwitchStep =>
            /\ current' = current
            /\ MetaOf(args[i + 1]).Name \in DOMAIN global'
       /\ ReturnStep =>
            /\ Len(clauses') = Len(clauses) + 1
            /\ \A j \in DOMAIN clauses' :
                  \A n \in DOMAIN fields :
                      Resolved(fields[n], Append(clauses, current)[j].Fields,
                               clauses'[j].Fields)]_vars

C7_Witness ==
    /\ Returned
    /\ Len(clauses) >= 2
    /\ \E k \in DOMAIN roles :
          /\ roles[k] = "switch" /\ args[k] = "-type" /\ ClauseOf(k) = 2
          /\ clauses[1].Fields["Type"] = Str(args[k + 1])
    /\ clauses[1].Fields["Title"] = Str("Chart")
    /\ \E j \in DOMAIN clauses :
          "Argv" \in DOMAIN clauses[j].Fields /\ "Argv" \notin DOMAIN global

\* The positions of the explicit -argv switches Parse consumed.
ExplicitArgvAt == {k \in DOMAIN roles : roles[k] = "switch" /\ args[k] = "-argv"}

\* C8: when the vector holds an explicit -argv F (the last one, if several),
\* every returned clause has Argv = F, wherever the bare .tsv/.csv tokens
\* stand.
C8_ExplicitArgvWins ==
    Returned =>
        \A k \in ExplicitArgvAt :
            (\A m \in ExplicitArgvAt : m <= k) =>
                \A j \in DOMAIN clauses : clauses[j].Fields["Argv"] = Str(args[k + 1])

MetaIn(flds, tok) == flds[FindField(flds, SwitchName(tok))]

\* The value the switch occurrence at k of vector a stores.
StoredBy(flds, a, k) ==
    LET meta == MetaIn(flds, a[k])
        negated == HasPrefix(a[k], "+")
    IN CASE meta.Type = "flag" -> Bool(TRUE)
         [] meta.Type = "multi" ->
               MultiValues(<<SwitchName(a[k])>> \o SubSeq(a, k + 1, k + Len(meta.Args)),
                           SwitchName(a[k]), meta, negated).val
         [] OTHER -> WrapNegated(parseValueWithValidation(a[k + 1], meta).val, negated)

\* The occurrences that accumulate into clause j's value of the field: those
\* of clause j for a local field, those of the whole vector for a global one.
Occurrences(flds, a, r, meta, j) ==
    {k \in DOMAIN r :
        /\ r[k] = "switch"
        /\ MetaIn(flds, a[k]).Name = meta.Name
        /\ meta.Scope = "local" => ClauseOfIn(r, k) = j}

Accumulated(flds, a, r, meta, j) ==
    LET at == InOrder(Occurrences(flds, a, r, meta, j))
    IN IF meta.Mode = "list"
       THEN List([n \in DOMAIN at |-> StoredBy(flds, a, at[n])])
       ELSE StoredBy(flds, a, at[Len(at)])

AdoptsFile(a, r, j) ==
    \E q \in DOMAIN r : r[q] = "positional" /\ ClauseOfIn(r, q) = j /\ IsTabularFile(a[q])

Multiplicity(flds, a, r, cs) ==
    \A j \in DOMAIN cs :
        \A n \in DOMAIN flds :
            IF Occurrences(flds, a, r, flds[n], j) # {}
            THEN (flds[n].Scope = "local" \/ ~AdoptsFile(a, r, j)) =>
                    /\ flds[n].Name \in DOMAIN cs[j].Fields
                    /\ cs[j].Fields[flds[n].Name] = Accumulated(flds, a, r, flds[n], j)
            ELSE flds[n].Scope = "local" =>
                    \/ flds[n].Name \notin DOMAIN cs[j].Fields
                    \/ cs[j].Fields[flds[n].Name] = flds[n].DefaultValue

\* No configuration struct of the repository declares a global list field:
\* the registry holding the one descriptor parseFieldTag returns for the
\* tag "field,global,list" on a field Y of type []string.
GlobalListFields == << [FieldMeta("Y") EXCEPT !.Type = "field", !.Scope = "global",
                                              !.Mode = "list"] >>
GlobalListConfig == [k \in {"Y"} |-> StrSlice(<<>>)]

-----------------------------------------------------------------------------
(* Properties of NewCommand (specification SpecTag)                         *)

Kinds == {"string", "field", "file", "number", "flag", "multi"}
Scopes == {"global", "local"}
Modes == {"last", "list"}
Keys == {"help", "default", "required", "complete", "args", "suffix", "enum"}

\* The comma-separated tokens of a tag that holds no braces, trimmed.
TagTokens(tag) == TrimAll(Split(tag, ","))

\* Token n of the tag is a positional word: present, not blank, no "=".
Word(tag, n) ==
    /\ n <= Len(TagTokens(tag))
    /\ TagTokens(tag)[n] # ""
    /\ ~Contains(TagTokens(tag)[n], "=")

\* The tag names an unknown kind, scope or mode at position 0, 1 or 2, or
\* an unknown key.
UnknownToken(tag) ==
    \/ Word(tag, 1) /\ TagTokens(tag)[1] \notin Kinds
    \/ Word(tag, 2) /\ TagTokens(tag)[2] \notin Scopes
    \/ Word(tag, 3) /\ TagTokens(tag)[3] \notin Modes
    \/ \E n \in DOMAIN TagTokens(tag) :
          /\ Contains(TagTokens(tag)[n], "=")
          /\ TrimSpace(SplitN2(TagTokens(tag)[n], "=")[1]) \notin Keys

\* The tag names no kind, no scope or no mode.
MissingToken(tag) == \E n \in 1..3 : ~Word(tag, n)

Tagged == {n \in DOMAIN struct : struct[n].tag # ""}
NewCommandReturned == tpc \in {"built", "failed"}

\* C10 (as claimed): a tagged field whose kind, scope or mode token is
\* missing or unknown, or that holds an unknown key, makes NewCommand
\* return an error and no command.
C10_MissingOrUnknownFails ==
    (/\ NewCommandReturned
     /\ \E n \in Tagged : UnknownToken(struct[n].tag) \/ MissingToken(struct[n].tag)) =>
        /\ tpc = "failed"
        /\ cmd = "nil"
        /\ terr # NoErr

\* C10 (amended): NewCommand returns an error, no command and no
\* descriptors as soon as a tagged field names an unknown kind, scope or
\* mode at position 0, 1 or 2 or an unknown key; a missing kind, scope or
\* mode token is no failure: the descriptor gets string, global, last.
C10_UnknownFailsMissingDefaults ==
    NewCommandReturned =>
        /\ tpc = "failed" <=> \E n \in Tagged : UnknownToken(struct[n].tag)
        /\ tpc = "failed" =>
              /\ cmd = "nil"
              /\ fields = <<>>
              /\ terr # NoErr
              /\ HasPrefix(ErrText(terr),
                           "reflecting fields: parsing field " \o struct[fidx + 1].name
                               \o ": unknown ")
              /\ UnknownToken(struct[fidx + 1].tag)
              /\ \A n \in 1..fidx : ~UnknownToken(struct[n].tag)
        /\ tpc = "built" =>
              /\ cmd = "GSCommand"
              /\ terr = NoErr
              /\ Len(fields) = Cardinality(Tagged)
              /\ \A m \in DOMAIN fields :
                    LET tag == struct[InOrder(Tagged)[m]].tag
                    IN /\ fields[m].Name = struct[InOrder(Tagged)[m]].name
                       /\ fields[m].Type =
                              IF Word(tag, 1) THEN TagTokens(tag)[1] ELSE "string"
                       /\ fields[m].Scope =
                              IF Word(tag, 2) THEN TagTokens(tag)[2] ELSE "global"
                       /\ fields[m].Mode =
                              IF Word(tag, 3) THEN TagTokens(tag)[3] ELSE "last"

C10_Witness ==
    /\ tpc = "failed"
    /\ fidx = 1
    /\ struct[2].tag = "multi, local,color=red"
    /\ terr = Errorf("reflecting fields: parsing field F: unknown key in tag: color")

\* What the descriptor of a list tag holds, read off the tag: its enum
\* values, the names of its argument specs and its suffix.
ListTagEnum(tag) ==
    IF Contains(tag, "enum=") THEN <<"bar", "line", "area">> ELSE <<>>
ListTagArgs(tag) ==
    IF Contains(tag, "args=")
    THEN <<[Name |-> "field", Type |-> "field"], [Name |-> "content", Type |-> "content"]>>
    ELSE <<>>
ListTagSuffix(tag) == IF Contains(tag, "suffix=") THEN ".{tsv,csv}" ELSE ""

\* C11: for a descriptor string obeying the grammar NewCommand builds a
\* descriptor whose kind, scope and mode are tokens 0, 1 and 2, whose
\* suffix keeps the commas inside braces, and whose enum and argument lists
\* are the same whether written with ":" or with ",".
C11_TagReflected ==
    \A n \in Tagged :
        (struct[n].tag \in ListTags /\ NewCommandReturned) =>
            /\ tpc = "built"
            /\ \E m \in DOMAIN fields :
                  /\ fields[m].Name = struct[n].name
                  /\ fields[m].Type = TagTokens(struct[n].tag)[1]
                  /\ fields[m].Scope = TagTokens(struct[n].tag)[2]
                  /\ fields[m].Mode = TagTokens(struct[n].tag)[3]
                  /\ fields[m].Suffix = ListTagSuffix(struct[n].tag)
                  /\ fields[m].Enum = ListTagEnum(struct[n].tag)
                  /\ fields[m].Args = ListTagArgs(struct[n].tag)

Cursor == IF pos < Len(compArgs) THEN compArgs[pos + 1] ELSE ""
Governing == findLastFlag(fields, compArgs, pos)
Previous == IF pos >= 1 /\ pos <= Len(compArgs) THEN compArgs[pos] ELSE ""
Fresh == [fieldCache |-> NoCache, contentCache |-> NoCache, opened |-> <<>>,
          lookups |-> <<>>]

\* The class and the candidates the argument argIndex of the switch meta
\* must get, as context type, sub-kind and result.
Expected(meta, argIndex) ==
    CASE meta.Type = "field" /\ argIndex = 0 ->
            [Type |-> "CompletionField", Sub |-> "",
             r |-> completeField(Fresh, context.TSVFile, Cursor)]
      [] meta.Type = "string" /\ argIndex = 0 /\ meta.Enum # <<>> ->
            [Type |-> "CompletionEnum", Sub |-> "",
             r |-> Plain(Fresh, completeEnum(<<meta>>, Cursor))]
      [] meta.Type = "multi" /\ argIndex >= 0 /\ argIndex < Len(meta.Args) ->
            [Type |-> "CompletionMultiArg", Sub |-> meta.Args[argIndex + 1].Type,
             r |-> CASE meta.Args[argIndex + 1].Type = "field" ->
                           IF context.TSVFile = "" THEN Plain(Fresh, <<>>)
                           ELSE completeField(Fresh, context.TSVFile, Cursor)
                     [] meta.Args[argIndex + 1].Type = "content" ->
                           IF context.TSVFile = "" \/ Previous = ""
                           THEN Plain(Fresh, <<>>)
                           ELSE completeContent(Fresh, context.TSVFile, Previous, Cursor)
                     [] OTHER -> Plain(Fresh, completeFiles(Cursor))]
      [] OTHER ->
            [Type |-> "CompletionFile", Sub |-> "",
             r |-> Plain(Fresh, completeFilesWithSuffix(Cursor, <<meta>>))]

\* C13: with a governing switch at index s and the cursor at index p the
\* argument index is p - s - 1; a field switch at index 0 completes field
\* names, a string switch with an enum at index 0 completes its values, a
\* multi switch inside its argument specs completes by the spec's sub-kind
\* (field names, values of the field named by the previous token, files),
\* and every other case completes files.
C13_ClassifiedBySwitch ==
    (/\ cpc \in {"analyzed", "returned"}
     /\ ~(HasPrefix(Cursor, "-") \/ HasPrefix(Cursor, "+"))
     /\ Governing.fieldMeta # <<>>) =>
        LET e == Expected(Governing.fieldMeta[1], pos - Governing.flagPos - 1)
        IN /\ context.Type = e.Type
           /\ context.FieldMeta = Governing.fieldMeta
           /\ e.Type = "CompletionMultiArg" => context.ArgumentSpec[1].Type = e.Sub
           /\ cpc = "returned" => completions = e.r.val /\ cerr = e.r.err

\* The second argument of -match is completed with values of the field
\* named by the first, from the detected file.
C13_Witness ==
    /\ cpc = "returned"
    /\ compArgs = <<"data.tsv", "-match", "name", "a">>
    /\ pos = 3
    /\ context.Type = "CompletionMultiArg"
    /\ context.ArgumentIndex = 1
    /\ context.FieldName = "name"
    /\ completions # <<>>

\* The lookup of the call has no data to read: no tabular file is detected,
\* or the detected file is missing or has no line.
NoData ==
    \/ context.TSVFile = ""
    \/ context.TSVFile \notin DOMAIN Files
    \/ Files[context.TSVFile] = <<>>

\* C14: completion never reports a data problem as an error: when the
\* detected tabular file is missing or empty or no file is detected, a
\* field-name or field-value completion returns no candidate and no error,
\* and no call of complete returns an error.
C14_DataProblemsGiveNoError ==
    cpc = "returned" =>
        /\ cerr = NoErr
        /\ (context.Type \in {"CompletionField", "CompletionMultiArg"} /\ NoData) =>
              completions = <<>>

\* C15: for every argument vector and every integer cursor position,
\* positions outside the vector included, complete returns normally with
\* no error and never indexes the vector out of range.
C15_AnyPositionReturns ==
    (cpc # "idle" /\ (pos < 0 \/ pos >= Len(compArgs))) =>
        /\ cpc # "panicked"
        /\ cpc = "returned" => cerr = NoErr

\* C16: on one command, after a first lookup getFields(file) or
\* getFieldValues(file, field), every later lookup with the same key opens
\* no file and returns the same result, whatever the first one returned.
C16_SecondLookupHitsCache ==
    \A m, n \in DOMAIN lookups :
        (m < n /\ lookups[m].key = lookups[n].key) =>
            /\ ~lookups[n].read
            /\ lookups[n].val = lookups[m].val
            /\ lookups[n].err = lookups[m].err

\* The cells of a data line of the file, separated as its header is, and
\* the distinct non-empty values of a field over the first hundred data
\* rows.
CellsOf(file, line) ==
    IF Contains(Files[file][1], Tab) THEN Split(line, Tab) ELSE Split(line, ",")
ColumnOf(file, field) ==
    CHOOSE n \in DOMAIN parseTSVHeader(Files[file][1]) :
        /\ parseTSVHeader(Files[file][1])[n] = field
        /\ \A m \in 1..(n - 1) : parseTSVHeader(Files[file][1])[m] # field
ValuesOf(file, field) ==
    {TrimSpace(CellsOf(file, Files[file][n])[ColumnOf(file, field)]) :
        n \in {k \in 2..Len(Files[file]) :
                  /\ k - 1 <= 100
                  /\ ColumnOf(file, field) <= Len(CellsOf(file, Files[file][k]))}} \ {""}

\* A content argument is completed from a readable file that has the field.
ContentCompleted ==
    /\ cpc = "returned"
    /\ context.Type = "CompletionMultiArg"
    /\ context.ArgumentSpec[1].Type = "content"
    /\ context.TSVFile \in DOMAIN Files
    /\ Files[context.TSVFile] # <<>>
    /\ \E n \in DOMAIN parseTSVHeader(Files[context.TSVFile][1]) :
          parseTSVHeader(Files[context.TSVFile][1])[n] = context.FieldName

\* C17: completing the second argument of a switch declared with
\* args=field:content, after a field name and with a detected tabular file,
\* returns exactly the distinct non-empty values of that field in the first
\* scanDepth (100) data rows that have the partial token as a
\* case-insensitive prefix, in ascending order, and no value of a later row.
C17_ValuesOfField ==
    ContentCompleted =>
        /\ cerr = NoErr
        /\ \A n \in DOMAIN completions :
              /\ completions[n] \in ValuesOf(context.TSVFile, context.FieldName)
              /\ HasPrefix(ToLower(completions[n]), ToLower(context.Current))
              /\ \A m \in 1..(n - 1) : StringLess(completions[m], completions[n])
        /\ \A v \in ValuesOf(context.TSVFile, context.FieldName) :
              HasPrefix(ToLower(v), ToLower(context.Current)) =>
                  \E n \in DOMAIN completions : completions[n] = v

\* Every spelling a switch of the command can be completed to: -name and
\* +name of each declared field, and the four built-in commands.
Spellings ==
    {FlagNames[fields[n].Name] : n \in DOMAIN fields}
        \cup {"+" \o SubSeq(FlagNames[fields[n].Name], 2, Len(FlagNames[fields[n].Name])) :
                 n \in DOMAIN fields}
        \cup {"-help", "-man", "-complete", "-bash-completion"}

\* C18: flag-name completion returns exactly the spellings that have the
\* partial token as a case-insensitive prefix, among -name and +name of
\* every declared field and the built-ins -help, -man, -complete and
\* -bash-completion; a partial "-" gives every declared switch in "-" form
\* and a partial "+t" gives "+type".
C18_FlagSpellingsByPrefix ==
    (cpc = "returned" /\ context.Type = "CompletionFlag") =>
        /\ cerr = NoErr
        /\ \A s \in Spellings :
              HasPrefix(ToLower(s), ToLower(context.Current))
                  <=> \E n \in DOMAIN completions : completions[n] = s
        /\ \A n \in DOMAIN completions : completions[n] \in Spellings
        /\ \A m, n \in DOMAIN completions : completions[m] = completions[n] => m = n
        /\ (cfg = "TestCompletionConfig" /\ context.Current = "-") =>
              completions = <<"-name", "-type", "-field", "-file", "-data-file",
                              "-config", "-match", "-help", "-man", "-complete",
                              "-bash-completion">>
        /\ (cfg = "TestCompletionConfig" /\ context.Current \in {"+t", "+T"}) =>
              completions = <<"+type">>

\* The negated spelling of a switch is completed from a capital partial.
C18_Witness ==
    /\ cpc = "returned"
    /\ cfg = "TestCompletionConfig"
    /\ compArgs = <<"+T">>
    /\ pos = 0
    /\ context.Type = "CompletionFlag"
    /\ completions = <<"+type">>

\* The place of a value in the declared enum of a descriptor.
EnumIndex(meta, v) == CHOOSE n \in DOMAIN meta.Enum : meta.Enum[n] = v

\* C19: when the cursor is the first argument of a string switch that
\* declares an enum, complete returns exactly the enum values that have the
\* partial token as a case-insensitive prefix, in declaration order (all of
\* them for an empty partial), and Parse accepts every value it returns for
\* that switch.
C19_EnumValuesByPrefix ==
    (cpc = "returned" /\ context.Type = "CompletionEnum") =>
        LET meta == context.FieldMeta[1]
        IN /\ cerr = NoErr
           /\ meta.Type = "string"
           /\ \A n \in DOMAIN meta.Enum :
                 HasPrefix(ToLower(meta.Enum[n]), ToLower(context.Current))
                     <=> \E k \in DOMAIN completions : completions[k] = meta.Enum[n]
           /\ \A k \in DOMAIN completions :
                 /\ \E n \in DOMAIN meta.Enum : meta.Enum[n] = completions[k]
                 /\ \A j \in 1..(k - 1) :
                       EnumIndex(meta, completions[j]) < EnumIndex(meta, completions[k])
                 /\ Parse(fields, <<FlagNames[meta.Name], completions[k]>>, config).err
                        = NoErr
           /\ context.Current = "" => completions = meta.Enum

\* The enum of -type is completed from a capital partial word.
C19_Witness ==
    /\ cpc = "returned"
    /\ compArgs = <<"-type", "L">>
    /\ pos = 1
    /\ context.Type = "CompletionEnum"
    /\ completions = <<"line">>

\* The parts of a pattern with an opening brace before a closing one: the
\* text before the braces, the options between them, the text after them.
Braced(p) == IndexOf(p, "{") > 0 /\ IndexOf(p, "{") < IndexOf(p, "}")
BracePrefix(p) == SubSeq(p, 1, IndexOf(p, "{") - 1)
BraceSuffix(p) == SubSeq(p, IndexOf(p, "}") + 1, Len(p))
BraceOptions(p) ==
    {TrimSpace(Split(SubSeq(p, IndexOf(p, "{") + 1, IndexOf(p, "}") - 1), ",")[n]) :
        n \in DOMAIN Split(SubSeq(p, IndexOf(p, "{") + 1, IndexOf(p, "}") - 1), ",")}
Globbed(p) == \E n \in 1..Len(p) : SubSeq(p, n, n) \in {"*", "?", "[", "]"}

\* C20: matchesSuffixPattern(filename, pattern) is case-insensitive in
\* both arguments; a literal pattern matches iff the file name ends with
\* it, a brace pattern iff the name ends with prefix + option + suffix for
\* some option, a character-class or wildcard pattern iff the name matches
\* the glob "*" + pattern; matches("DATA.CSV", ".{tsv,csv}") is true and
\* matches("data.json", ".[tc]sv") is false.
C20_MatchDecides ==
    mpc = "returned" =>
        LET f == ToLower(matchName)
            p == ToLower(matchPattern)
        IN /\ matched = matchesSuffixPattern(f, p)
           /\ (~Braced(p) /\ ~Contains(p, "{") /\ ~Contains(p, "}") /\ ~Globbed(p)) =>
                 (matched <=> HasSuffix(f, p))
           /\ Braced(p) =>
                 (matched <=> \E o \in BraceOptions(p) :
                                  HasSuffix(f, BracePrefix(p) \o o \o BraceSuffix(p)))
           /\ (~Contains(p, "{") /\ ~Contains(p, "}") /\ Globbed(p)
                   /\ ~BadPattern("*" \o p)) =>
                 (matched <=> GlobMatch("*" \o p, f))
           /\ (matchName = "DATA.CSV" /\ matchPattern = ".{tsv,csv}") => matched
           /\ (matchName = "data.json" /\ matchPattern = ".[tc]sv") => ~matched

\* A capital file name is matched by an option of a brace pattern, and a
\* capital class has matched a lower-case name.
C20_Witness ==
    /\ mpc = "returned"
    /\ matchName = "DATA.CSV"
    /\ matchPattern = ".{tsv,csv}"
    /\ matched
    /\ matchesSuffixPattern("data.tsv", ".[TC]SV")
    /\ ~matchesSuffixPattern("data.json", ".[tc]sv")

\* The directory and the partial file name of the path at the cursor, the
\* candidate an entry of that directory is returned as, and the extensions
\* each declared suffix pattern stands for.
PartialDir ==
    IF HasSuffix(context.Current, "/") THEN context.Current
    ELSE IF Contains(context.Current, "/") THEN DirOf(context.Current) ELSE "."
PartialName ==
    IF HasSuffix(context.Current, "/") THEN "" ELSE BaseOf(context.Current)
CandidateOf(e) ==
    (IF PartialDir = "." THEN e.Name ELSE TrimSlashes(PartialDir) \o "/" \o e.Name)
        \o (IF e.IsDir THEN "/" ELSE "")
Extensions(suffix) ==
    CASE suffix = ".tsv" -> {".tsv"}
      [] suffix = ".[tc]sv" -> {".tsv", ".csv"}
      [] suffix = ".{json,yaml}" -> {".json", ".yaml"}
      [] OTHER -> {""}
GoverningSuffix == IF context.FieldMeta = <<>> THEN "" ELSE context.FieldMeta[1].Suffix

\* C21: in filesystem completion every candidate that is not a directory
\* matches the governing suffix pattern; every directory whose name has the
\* partial as prefix is returned with a trailing "/" whatever its suffix;
\* an entry whose name starts with "." is returned only when the partial
\* file name starts with ".".
C21_FilesBySuffix ==
    (cpc = "returned" /\ context.Type = "CompletionFile" /\ PartialDir \in DOMAIN Dirs) =>
        /\ \A n \in DOMAIN completions :
              \E k \in DOMAIN Dirs[PartialDir] :
                  LET e == Dirs[PartialDir][k]
                  IN /\ completions[n] = CandidateOf(e)
                     /\ HasPrefix(ToLower(e.Name), ToLower(PartialName))
                     /\ HasPrefix(e.Name, ".") => HasPrefix(PartialName, ".")
                     /\ (~e.IsDir /\ GoverningSuffix # "") =>
                           \E x \in Extensions(GoverningSuffix) :
                               HasSuffix(ToLower(e.Name), x)
        /\ \A k \in DOMAIN Dirs[PartialDir] :
              LET e == Dirs[PartialDir][k]
              IN (/\ e.IsDir
                  /\ HasPrefix(ToLower(e.Name), ToLower(PartialName))
                  /\ HasPrefix(e.Name, ".") => HasPrefix(PartialName, ".")) =>
                     \E n \in DOMAIN completions : completions[n] = CandidateOf(e)

\* Under the suffix .[tc]sv of -argv the files of the other kinds are left
\* out and the directories are all there.
C21_Witness ==
    /\ cpc = "returned"
    /\ compArgs = <<"-argv", "D">>
    /\ pos = 1
    /\ context.Type = "CompletionFile"
    /\ GoverningSuffix = ".[tc]sv"
    /\ completions = <<"data.tsv", "DATA.CSV", "data.tsv.d/", "docs/">>

C23_CollaboratorErrorUnchanged ==
    (xpc = "returned" /\ pc = "done" /\ xcollab # NoErr) => xerr = xcollab

\* The part of C23 that the code keeps: the error of the Commander's
\* Execute is returned as it is.
C23_ExecuteErrorUnchanged ==
    (xpc = "returned" /\ Len(xcalls) = 3) => xerr = xcollab

\* C24: in the chart example, after Parse of a vector that spells the Quiet
\* switch as +quiet the configuration's Quiet is false, and Execute logs
\* the progress message of every clause.
C24_PlusQuietIsVerbose ==
    (cfg = "ChartConfig" /\ xpc = "returned" /\ Len(xcalls) = 3
        /\ \E n \in 1..Len(args) : args[n] = "+quiet")
    => /\ config["Quiet"].v = FALSE
       /\ (xerr = NoErr => xlog = Len(clauses))

\* What the code does with the Quiet flag: whatever the spelling and
\* whether the switch is given or not, Quiet is true after Parse and
\* nothing is logged.
C24_QuietAlwaysTrue ==
    (cfg = "ChartConfig" /\ pc = "done")
    => /\ config["Quiet"].v = TRUE
       /\ xlog = 0

\* C25: the completion sub-command called as `-complete 1 data.tsv -y`
\* outputs the header field names of data.tsv (name and dept).
C25_CompleteOneGivesFields ==
    (cfg = "ChartConfig" /\ xpc = "returned"
        /\ args = <<"-complete", "1", "data.tsv", "-y">>)
    => (xerr = NoErr /\ xout = <<"name", "dept">>)

\* The field names are what the sub-command outputs for cursor index 2,
\* the empty word after -y; index 1 is the word -y itself and gets the
\* spellings of the switch.
C25_CompleteTwoGivesFields ==
    /\ (cfg = "ChartConfig" /\ xpc = "returned"
            /\ args = <<"-complete", "2", "data.tsv", "-y">>)
       => (xerr = NoErr /\ xout = <<"name", "dept">>)
    /\ (cfg = "ChartConfig" /\ xpc = "returned"
            /\ args = <<"-complete", "1", "data.tsv", "-y">>)
       => (xerr = NoErr /\ xout = <<"-y">>)

\* The tokens before the cursor (1-based), and the ones among them that can
\* govern the cursor: a known switch after +name is read as -name, with no
\* token starting with - or + between it and the cursor.
BeforeCursor == 1..(IF pos > Len(compArgs) THEN Len(compArgs) ELSE pos)

StartsWithSign(tok) == IF Len(tok) = 0 THEN FALSE ELSE Char(tok, 1) \in {"-", "+"}

SwitchAt(k) == FindField(fields, "-" \o SubSeq(compArgs[k], 2, Len(compArgs[k])))

Governs(k) ==
    /\ StartsWithSign(compArgs[k])
    /\ Len(compArgs[k]) > 1
    /\ SwitchAt(k) # 0
    /\ \A m \in BeforeCursor : m > k => ~StartsWithSign(compArgs[m])

\* C26: when the word at the cursor is not itself a switch, the governing
\* switch of a completion is the nearest token before the cursor that is a
\* known switch (+name read as -name) with only unprefixed tokens between
\* it and the cursor; when the nearest prefixed token is a standalone + or -
\* or an unknown switch there is no governing switch and the completion
\* falls back to files, so lookback never crosses a clause separator.
C26_LookbackStopsAtPrefixed ==
    (cpc \in {"analyzed", "returned"} /\ ~StartsWithSign(context.Current))
    => LET G == {k \in BeforeCursor : Governs(k)}
       IN /\ Cardinality(G) <= 1
          /\ G = {} => /\ context.Type = "CompletionFile"
                       /\ context.FieldMeta \in {<<>>, ArgvMeta(fields)}
          /\ \A k \in G :
                /\ context.FieldMeta = <<fields[SwitchAt(k)]>>
                /\ \A m \in BeforeCursor :
                      m > k => compArgs[m] \notin {"-", "+"}

\* +match governs the word after its first argument: the unprefixed token
\* na is skipped and +match is read as -match.
C26_Witness ==
    /\ cpc = "analyzed"
    /\ compArgs = <<"+match", "na">>
    /\ pos = 2
    /\ context.FieldMeta # <<>>
    /\ context.FieldMeta[1].Name = "Match"
    /\ context.Type = "CompletionMultiArg"
    /\ context.ArgumentIndex = 1

\* C27: every descriptor of kind multi in a command that NewCommand built
\* without error has at least one ArgumentSpec.
C27_MultiHasArgs ==
    tpc = "built"
    => \A n \in DOMAIN fields :
          fields[n].Type = "multi" => Len(fields[n].Args) >= 1

\* What the registry does guarantee: a descriptor has argument specs only
\* when its tag has a key args, and then each of them has a known type.
C27_ArgsOnlyFromKey ==
    tpc = "built"
    => \A n \in DOMAIN fields :
          fields[n].Args # <<>> => Contains(struct[n].tag, "args=")

\* The bare tokens with a tabular extension, by position in the vector.
BareTabularAt == {k \in DOMAIN roles : roles[k] = "positional" /\ IsTabularFile(args[k])}

NoExplicitArgv == \A k \in DOMAIN roles : ~(roles[k] = "switch" /\ args[k] \in {"-argv", "+argv"})

TwoBareTabular == pc = "done" /\ cfg = "ChartConfig" /\ NoExplicitArgv
                     /\ Cardinality(BareTabularAt) >= 2

\* C28: when a vector without -argv holds two or more bare tabular tokens,
\* every clause that has an Argv value after Parse has the first of them,
\* also when the tokens stand in different clauses.
C28_FirstBareWins ==
    TwoBareTabular
    => LET first == CHOOSE k \in BareTabularAt : \A m \in BareTabularAt : k <= m
       IN \A j \in DOMAIN clauses :
             "Argv" \in DOMAIN clauses[j].Fields
                 => clauses[j].Fields["Argv"] = Str(args[first])

\* What the code does: a clause has the first bare tabular token of its
\* own, and a clause without one has no Argv at all.
C28_FirstBareOfClauseWins ==
    TwoBareTabular
    => \A j \in DOMAIN clauses :
          LET own == {k \in BareTabularAt : ClauseOfIn(roles, k) = j}
          IN IF own = {} THEN "Argv" \notin DOMAIN clauses[j].Fields
             ELSE /\ "Argv" \in DOMAIN clauses[j].Fields
                  /\ clauses[j].Fields["Argv"]
                        = Str(args[CHOOSE k \in own : \A m \in own : k <= m])

\* The tokens scanned so far have one role each, the role the token's text
\* and place give it.
EachTokenOnce ==
    /\ Len(roles) = i
    /\ i <= Len(args)
    /\ \A k \in DOMAIN roles :
          /\ roles[k] \in {"separator", "switch", "value", "positional"}
          /\ roles[k] = "value" => (k > 1 /\ roles[k - 1] \in {"switch", "value"})
          /\ roles[k] # "value" =>
                roles[k] = (IF args[k] \in SeparatorTokens THEN "separator"
                            ELSE IF StartsWithSign(args[k]) THEN "switch"
                            ELSE "positional")
          /\ roles[k] = "switch" => KnownSwitch(args[k])

\* A step of the scan moves the index forward, or fails and leaves it.
IndexAdvances ==
    /\ (pc = "scan" /\ pc' = "scan") => i' > i
    /\ pc' = "done" => (i' = i /\ i = Len(args))
    /\ pc' = "failed" => (i' = i /\ roles' = roles)

\* C29: Parse terminates on every argument vector; while it scans and when
\* it has succeeded every token before the index has been consumed exactly
\* once, as a clause separator, a switch name, a value of the preceding
\* switch (whatever its first character) or a positional argument recorded
\* under _args of its clause; the index strictly increases at every step
\* and is the length of the vector when Parse returns clauses.
C29_ParseConsumesOnce ==
    /\ [](EachTokenOnce
          /\ (pc = "done" => /\ i = Len(args)
                             /\ \A j \in DOMAIN clauses :
                                   getStringSlice(clauses[j].Fields, "_args")
                                       = PositionalsOf(j)))
    /\ [][IndexAdvances]_vars
    /\ (pc = "scan") ~> (pc \in {"done", "failed"})

\* A vector parsed to the end with a token of every role, the value being a
\* token that would otherwise be a separator.
C29_Witness ==
    /\ pc = "done"
    /\ Len(args) = 4
    /\ {roles[k] : k \in DOMAIN roles} = {"separator", "switch", "value", "positional"}
    /\ \E k \in DOMAIN roles : roles[k] = "value" /\ args[k] \in SeparatorTokens

\* The configuration struct is assigned by the step that returns the
\* clauses and by no other.
ConfigWrittenAtReturn ==
    config' # config => (pc = "scan" /\ pc' = "done" /\ i = Len(args))

\* C30: a Parse that returns an error returns no clauses and leaves every
\* field of the configuration struct as it was before the call; the struct
\* is written only after the whole vector has been scanned without error.
C30_FailingParseHasNoEffect ==
    /\ [](pc = "failed" => /\ err # NoErr
                           /\ clauses = <<>>
                           /\ config = ZeroConfig(StructOf(cfg)))
    /\ [](pc = "scan" => config = ZeroConfig(StructOf(cfg)))
    /\ [][ConfigWrittenAtReturn]_vars

\* Parse fails on a malformed number after it has parsed a global switch:
\* the value is in the local map and not in the configuration.
C30_Witness ==
    /\ pc = "failed"
    /\ args = <<"+quiet", "-width", "cpu">>
    /\ "Quiet" \in DOMAIN global
    /\ global["Quiet"] = Bool(TRUE)
    /\ config["Quiet"] = Bool(FALSE)
    /\ clauses = <<>>

====
